---- MODULE Spec2Model ----
(***************************************************************************)
(* Room session and synchronisation protocol of the watch-together server  *)
(* (src/server.js): the in-memory rooms registry, the per-room JSON files, *)
(* the socket.io handlers and the points where an async handler is         *)
(* suspended on a storage promise; and of the room page of the client      *)
(* (src/src/app/room/[roomId]/page.tsx) with its player wrapper            *)
(* (src/src/components/video/VideoPlayerWrapper.tsx).                      *)
(***************************************************************************)
EXTENDS Integers, Sequences, FiniteSets, TLC

\* ------------------------------------------------------------------ domains
\* socket.id values handed out by the transport; each is used by one connection.
SocketOrder == <<"s1", "s2", "s3">>
SocketIds == {SocketOrder[i] : i \in 1..Len(SocketOrder)}
\* room ids clients name in their payloads (already URL-decoded).
RoomIds == {"r1"}
UsernameOrder == <<"u1", "u2", "u3">>
Usernames == {UsernameOrder[i] : i \in 1..Len(UsernameOrder)}
PasswordOrder == <<"p1", "p2">>
Passwords == {PasswordOrder[i] : i \in 1..Len(PasswordOrder)}
VideoUrls == {"blob:v"}
FileNames == {"a.mp4", "b.mp4"}
Controls == {"play", "pause"}
\* send_message payload messageData, host_sync_state_update payload state.
Messages == {"hello"}
SyncStates == {"t=10"}
NULL == "null"
\* a username the client left empty.
EmptyUsername == ""

\* storage operations (fs promises) that may be in flight at the same time.
MaxPending == 2
\* join_room messages the clients send in a run.
MaxJoins == 3
\* video_select messages the clients send in a run.
MaxSelects == 1

VARIABLES
  connected,      \* socket.id -> "fresh" | "open" | "closed"
  currentRoomId,  \* socket.id -> the handler closure's currentRoomId
  sio,            \* socket.id -> set of socket.io rooms the socket has joined
  rooms,          \* the in-memory registry: an object keyed by room id
  files,          \* server_data/rooms/<id>.json: the stored records, keyed by room id
  pending,        \* suspended handlers, each awaiting one fs promise
  sent,           \* what the clients have sent so far: join_room messages,
                  \* video_select messages, distinct usernames and passwords;
                  \* rejected: the connections that have been sent a join_error
  last,           \* the handler step taken last
  outbox,         \* the emissions of that step, in order
  page,           \* socket.id -> the room page of the client that owns the socket
  emits,          \* the socket.emit calls of the client step taken last
  heard,          \* socket.id -> the server event the page handled last
  inbox,          \* socket.id -> server events on their way to the page, in order
  uplink,         \* socket.id -> client events on their way to the server, in order
  chat            \* socket.id -> the chat panel of the client that owns the socket

serverVars == <<connected, currentRoomId, sio, rooms, files, pending, sent, last, outbox>>

clientVars == <<page, emits, heard, inbox, uplink, chat>>

vars == <<connected, currentRoomId, sio, rooms, files, pending, sent, last, outbox,
          page, emits, heard, inbox, uplink, chat>>

\* ------------------------------------------------------------------ Map helpers
\* A JS Map is kept as the sequence of its entries in insertion order.
MapHas(users, id) == \E i \in 1..Len(users) : users[i].id = id

MapDelete(users, id) == SelectSeq(users, LAMBDA e : e.id # id)

MapSet(users, id, username) ==
  IF MapHas(users, id)
  THEN [i \in 1..Len(users) |->
          IF users[i].id = id THEN [id |-> id, username |-> username] ELSE users[i]]
  ELSE Append(users, [id |-> id, username |-> username])

MapKeys(users) == {users[i].id : i \in 1..Len(users)}

\* Array.from(users.values()): the {username} objects in insertion order.
MapValues(users) == [i \in 1..Len(users) |-> users[i].username]

MapGetUsername(users, id) ==
  IF MapHas(users, id)
  THEN (CHOOSE e \in {users[i] : i \in 1..Len(users)} : e.id = id).username
  ELSE NULL

\* ------------------------------------------------------------------ room store
\* obj[key] = value on a plain object: an existing key keeps its place.
ObjAssign(obj, key, value) ==
  IF \E i \in 1..Len(obj) : obj[i].key = key
  THEN [i \in 1..Len(obj) |->
          IF obj[i].key = key THEN [key |-> key, username |-> value] ELSE obj[i]]
  ELSE Append(obj, [key |-> key, username |-> value])

RECURSIVE EntriesToObj(_, _)
EntriesToObj(entries, obj) ==
  IF entries = <<>> THEN obj
  ELSE EntriesToObj(Tail(entries), ObjAssign(obj, Head(entries).id, Head(entries).username))

RECURSIVE ObjToMap(_, _)
ObjToMap(obj, users) ==
  IF obj = <<>> THEN users
  ELSE ObjToMap(Tail(obj), MapSet(users, Head(obj).key, Head(obj).username))

\* saveRoomData: the record JSON.stringify writes, users turned into a plain object.
Serialize(roomData) ==
  [users                |-> EntriesToObj(roomData.users, <<>>),
   password             |-> roomData.password,
   currentVideoUrl      |-> roomData.currentVideoUrl,
   currentVideoFileName |-> roomData.currentVideoFileName,
   hostSocketId         |-> roomData.hostSocketId]

\* the stored host is not read back.
loadRoomDataNoHost(roomId) ==
  IF roomId \notin DOMAIN files THEN <<>>
  ELSE <<[users                |-> ObjToMap(files[roomId].users, <<>>),
          password             |-> files[roomId].password,
          currentVideoUrl      |-> files[roomId].currentVideoUrl,
          currentVideoFileName |-> files[roomId].currentVideoFileName,
          hostSocketId         |-> NULL]>>

\* loadRoomData: JSON.parse of the file, users turned back into a Map; null
\* (the empty sequence) when the file does not exist.
loadRoomData(roomId) ==
  IF roomId \notin DOMAIN files THEN <<>>
  ELSE <<[users                |-> ObjToMap(files[roomId].users, <<>>),
          password             |-> files[roomId].password,
          currentVideoUrl      |-> files[roomId].currentVideoUrl,
          currentVideoFileName |-> files[roomId].currentVideoFileName,
          hostSocketId         |-> files[roomId].hostSocketId]>>

\* obj[key] = value and delete obj[key] on the registry and on the directory.
Put(f, k, v) == [x \in (DOMAIN f) \cup {k} |-> IF x = k THEN v ELSE f[x]]

Remove(f, k) == [x \in (DOMAIN f) \ {k} |-> f[x]]

\* ------------------------------------------------------------------ suspended handlers
\* data: the text a pending writeFile carries (<<>> when the promise is no write);
\* ref: the roomData object the handler reads when it resumes, <<>> while that
\* object is the one the registry holds.
Cont(kind, conn, room) ==
  [kind |-> kind, conn |-> conn, room |-> room, password |-> NULL, username |-> NULL,
   data |-> <<>>, ref |-> <<>>, live |-> FALSE, existingUser |-> FALSE,
   videoUrl |-> NULL, fileName |-> NULL]

\* A room object leaves the registry (deleted or overwritten): the handlers that
\* hold a reference to it keep the object as it is at that moment.
Detach(pend, roomId, obj) ==
  {IF p.room = roomId /\ p.live THEN [p EXCEPT !.ref = <<obj>>, !.live = FALSE] ELSE p
     : p \in pend}

CanIssue(pend, p) == Cardinality(pend) < MaxPending /\ p \notin pend

\* ------------------------------------------------------------------ emissions
Emit(ev, to, body) == [ev |-> ev, to |-> to, body |-> body]

\* the open sockets that are in socket.io room roomId, given the membership m.
InRoom(conn, m, roomId) == {s \in SocketIds : conn[s] = "open" /\ roomId \in m[s]}

\* the socket itself (socket.emit, io.to(socket id)): reached only while open.
Self(conn, s) == IF s \in SocketIds /\ conn[s] = "open" THEN {s} ELSE {}

\* ------------------------------------------------------------------ the room page
\* useState initial values of RoomPage (page.tsx 33-43) and of the player
\* wrapper (VideoPlayerWrapper.tsx 29-37). surface: the ReactPlayer instance
\* playerRef points to, <<>> while none is rendered; timers: the pending
\* setTimeout callbacks of applyState, oldest first; selectTimers: those of
\* handleVideoSelectByHost; effectDue: the wrapper's effects are scheduled and
\* have not run yet; pageLoading: isLoading of the page, false once the mount
\* effect has found no stored password and the password prompt is shown.
PageInit ==
  [joined |-> FALSE, isHost |-> FALSE, videoUrl |-> NULL, pageLoading |-> FALSE,
   hasWindow |-> FALSE, isLoading |-> TRUE, error |-> FALSE, isPlaying |-> FALSE,
   playedSeconds |-> 0, currentDuration |-> 0, effectDue |-> FALSE,
   surface |-> <<>>, timers |-> <<>>, selectTimers |-> 0]

\* The chat panel of a client (ChatInterface.tsx). messages: the messages state,
\* in display order; converting: the handleNewMessage calls suspended in the
\* fetch of an audio data URI; arrived: the new_message events the panel's
\* listener was called with, in order; typed: the messages the user has sent.
ChatInit == [messages |-> <<>>, converting |-> {}, arrived |-> <<>>, typed |-> 0]

\* ------------------------------------------------------------------ initial state
\* The server has started: no socket, an empty registry and an empty directory.
Init ==
  /\ connected = [s \in SocketIds |-> "fresh"]
  /\ currentRoomId = [s \in SocketIds |-> NULL]
  /\ sio = [s \in SocketIds |-> {}]
  /\ rooms = [r \in {} |-> NULL]
  /\ files = [r \in {} |-> NULL]
  /\ pending = {}
  /\ sent = [join |-> 0, select |-> 0, usernames |-> 0,
             passwords |-> 0, rejected |-> {}]
  /\ last = [op |-> "start", conn |-> NULL, room |-> NULL]
  /\ outbox = <<>>
  /\ page = [s \in SocketIds |-> PageInit]
  /\ emits = <<>>
  /\ heard = [s \in SocketIds |-> <<>>]
  /\ inbox = [s \in SocketIds |-> <<>>]
  /\ uplink = [s \in SocketIds |-> <<>>]
  /\ chat = [s \in SocketIds |-> ChatInit]

\* Socket ids, usernames and passwords are only ever compared for equality, so
\* every run is a renaming of one in which they first appear in this order.
IndexIn(order, x) == CHOOSE i \in 1..Len(order) : order[i] = x

Max(a, b) == IF a >= b THEN a ELSE b

\* a value outside the order (the empty username) keeps its own name.
Rank(order, x) == IF \E i \in 1..Len(order) : order[i] = x THEN IndexIn(order, x) ELSE 0

FirstUse(order, x, used) == Rank(order, x) <= used + 1

\* io.on("connection"): a new socket, its closure's currentRoomId is null.
Connect(s) ==
  /\ connected[s] = "fresh"
  /\ \A i \in 1..(IndexIn(SocketOrder, s) - 1) : connected[SocketOrder[i]] # "fresh"
  /\ connected' = [connected EXCEPT ![s] = "open"]
  /\ last' = [op |-> "connect", conn |-> s, room |-> NULL]
  /\ outbox' = <<>>
  /\ UNCHANGED <<currentRoomId, sio, rooms, files, pending, sent>>

\* ------------------------------------------------------------------ join_room
Min(S) == CHOOSE x \in S : \A y \in S : x <= y

\* the host role does not follow a replaced entry.
JoinScanKeepsHost(roomData, id, username) ==
  LET users == roomData.users
      hits == {i \in 1..Len(users) : users[i].id = id \/ users[i].username = username}
  IN IF hits = {} THEN [existingUser |-> FALSE, roomData |-> roomData]
     ELSE LET old == users[Min(hits)].id
          IN IF old # id
             THEN [existingUser |-> TRUE,
                   roomData |-> [roomData EXCEPT
                     !.users = MapSet(MapDelete(users, old), id, username)]]
             ELSE [existingUser |-> TRUE, roomData |-> roomData]

\* the old entry is left in place beside the new one.
JoinScanAddsBeside(roomData, id, username) ==
  LET users == roomData.users
      hits == {i \in 1..Len(users) : users[i].id = id \/ users[i].username = username}
  IN IF hits = {} THEN [existingUser |-> FALSE, roomData |-> roomData]
     ELSE LET old == users[Min(hits)].id
          IN IF old # id
             THEN [existingUser |-> TRUE,
                   roomData |-> [roomData EXCEPT
                     !.users = MapSet(users, id, username),
                     !.hostSocketId = IF @ = old THEN id ELSE @]]
             ELSE [existingUser |-> TRUE, roomData |-> roomData]

\* The loop over roomData.users: the first entry with this socket id or this
\* username makes the caller an existing user; when that entry belongs to
\* another socket id it is deleted and re-added under the caller's id, and the
\* host role follows it.
JoinScan(roomData, id, username) ==
  LET users == roomData.users
      hits == {i \in 1..Len(users) : users[i].id = id \/ users[i].username = username}
  IN IF hits = {} THEN [existingUser |-> FALSE, roomData |-> roomData]
     ELSE LET old == users[Min(hits)].id
          IN IF old # id
             THEN [existingUser |-> TRUE,
                   roomData |-> [roomData EXCEPT
                     !.users = MapSet(MapDelete(users, old), id, username),
                     !.hostSocketId = IF @ = old THEN id ELSE @]]
             ELSE [existingUser |-> TRUE, roomData |-> roomData]

\* capacity off by one.
RoomFullOffByOne(existingUser, users) == ~existingUser /\ Len(users) >= 3

\* a room takes one member only.
RoomFullAtOne(existingUser, users) == ~existingUser /\ Len(users) >= 1

RoomFull(existingUser, users) == ~existingUser /\ Len(users) >= 2

\* the password comparison is missing.
PasswordOkAny(stored, given) == TRUE

PasswordOk(stored, given) == stored = given

\* socket.join(roomId)
SocketJoin(s, roomId) ==
  IF connected[s] = "open" THEN [sio EXCEPT ![s] = @ \cup {roomId}] ELSE sio

\* The branch taken when roomData exists (lines 108-146), up to the await of
\* saveRoomData. live: roomData is the object the registry holds for roomId
\* once line 109 has run; cur: currentRoomId as the handler left it so far;
\* pend: the other suspended handlers; snt: the messages counted so far.
JoinExisting(s, roomId, password, username, roomData, live, cur, pend, snt, op) ==
  LET installed == IF roomId \in DOMAIN rooms THEN rooms ELSE Put(rooms, roomId, roomData)
      scan == JoinScan(roomData, s, username)
      admitted == IF scan.existingUser THEN scan.roomData
                  ELSE [roomData EXCEPT !.users = MapSet(@, s, username)]
      k == [Cont("save_join", s, roomId) EXCEPT
              !.username = username, !.existingUser = scan.existingUser,
              !.data = <<Serialize(admitted)>>, !.live = live,
              !.ref = IF live THEN <<>> ELSE <<admitted>>]
      req == [op |-> op, conn |-> s, room |-> roomId]
  IN IF ~PasswordOk(roomData.password, password)
     THEN /\ rooms' = installed
          /\ currentRoomId' = [cur EXCEPT ![s] = NULL]
          /\ outbox' = <<Emit("join_error", Self(connected, s), [message |-> "Invalid password."])>>
          /\ pending' = pend
          /\ sent' = [snt EXCEPT !.rejected = @ \cup {s}]
          /\ last' = [req EXCEPT !.op = op \o ":invalid"]
          /\ UNCHANGED <<connected, sio, files>>
     ELSE IF RoomFull(scan.existingUser, roomData.users)
     THEN /\ rooms' = installed
          /\ currentRoomId' = [cur EXCEPT ![s] = NULL]
          /\ outbox' = <<Emit("join_error", Self(connected, s), [message |-> "Room is full."])>>
          /\ pending' = pend
          /\ sent' = [snt EXCEPT !.rejected = @ \cup {s}]
          /\ last' = [req EXCEPT !.op = op \o ":full"]
          /\ UNCHANGED <<connected, sio, files>>
     ELSE /\ CanIssue(pend, k)
          /\ rooms' = IF live THEN Put(rooms, roomId, admitted) ELSE rooms
          /\ currentRoomId' = cur
          /\ sio' = SocketJoin(s, roomId)
          /\ pending' = pend \cup {k}
          /\ sent' = snt
          /\ outbox' = <<>>
          /\ last' = [req EXCEPT !.op = op \o ":admitted"]
          /\ UNCHANGED <<connected, files>>

\* The branch taken when the room exists neither in memory nor on disk
\* (lines 160-170), up to the await of saveRoomData. An object another handler
\* put into the registry in the meantime is overwritten.
JoinCreate(s, roomId, password, username, cur, pend, op) ==
  LET created == [users |-> <<[id |-> s, username |-> username]>>,
                  password |-> password,
                  currentVideoUrl |-> NULL,
                  currentVideoFileName |-> NULL,
                  hostSocketId |-> s]
      k == [Cont("save_create", s, roomId) EXCEPT !.data = <<Serialize(created)>>]
      kept == IF roomId \in DOMAIN rooms THEN Detach(pend, roomId, rooms[roomId]) ELSE pend
  IN /\ CanIssue(kept, k)
     /\ rooms' = Put(rooms, roomId, created)
     /\ currentRoomId' = cur
     /\ sio' = SocketJoin(s, roomId)
     /\ pending' = kept \cup {k}
     /\ outbox' = <<>>
     /\ last' = [op |-> op \o ":created", conn |-> s, room |-> roomId]
     /\ UNCHANGED <<connected, files>>

\* socket.on("join_room"): the handler from the message to its first await.
JoinRoomHandler(s, roomId, password, username) ==
  /\ connected[s] = "open"
  /\ FirstUse(UsernameOrder, username, sent.usernames)
  /\ FirstUse(PasswordOrder, password, sent.passwords)
  /\ LET cur == [currentRoomId EXCEPT ![s] = roomId]
         snt == [sent EXCEPT !.join = @ + 1,
                             !.usernames = Max(@, Rank(UsernameOrder, username)),
                             !.passwords = Max(@, Rank(PasswordOrder, password))]
     IN IF roomId \in DOMAIN rooms
        THEN JoinExisting(s, roomId, password, username, rooms[roomId], TRUE, cur,
                          pending, snt, "join_room")
        ELSE LET k == [Cont("load", s, roomId) EXCEPT
                         !.password = password, !.username = username]
             IN /\ CanIssue(pending, k)
                /\ pending' = pending \cup {k}
                /\ sent' = snt
                /\ currentRoomId' = cur
                /\ outbox' = <<>>
                /\ last' = [op |-> "join_room:load", conn |-> s, room |-> roomId]
                /\ UNCHANGED <<connected, sio, rooms, files>>

\* a join_room message within the clients' budget.
JoinRoom(s, roomId, password, username) ==
  /\ sent.join < MaxJoins
  /\ JoinRoomHandler(s, roomId, password, username)

\* one more join_room, sent by a connection that has been turned away before.
JoinRetry(s, roomId, password, username) ==
  /\ sent.join = MaxJoins
  /\ s \in sent.rejected
  /\ JoinRoomHandler(s, roomId, password, username)

\* loadRoomData settles and the join_room handler goes on to its next await.
JoinLoaded(p) ==
  /\ p \in pending /\ p.kind = "load"
  /\ LET roomData == loadRoomData(p.room)
         pend == pending \ {p}
     IN IF roomData # <<>>
        THEN JoinExisting(p.conn, p.room, p.password, p.username, roomData[1],
                          p.room \notin DOMAIN rooms, currentRoomId, pend, sent,
                          "join_loaded")
        ELSE /\ JoinCreate(p.conn, p.room, p.password, p.username, currentRoomId, pend,
                           "join_loaded")
             /\ UNCHANGED sent

\* fs.writeFile and fs.unlink settle: the effect on the directory.
WriteFile(roomId, data) == Put(files, roomId, data)

Unlink(roomId) == Remove(files, roomId)

\* The roomData object a resumed join_room handler reads.
Deref(p) == IF p.live THEN rooms[p.room] ELSE p.ref[1]

\* saveRoomData settles in the roomData branch: room_joined to the caller,
\* user_joined to the rest of the socket.io room for a new user (lines 148-158).
JoinSaved(p) ==
  /\ p \in pending /\ p.kind = "save_join"
  /\ files' = WriteFile(p.room, p.data[1])
  /\ pending' = pending \ {p}
  /\ LET roomData == Deref(p)
         joined == Emit("room_joined", Self(connected, p.conn),
                        [roomId |-> p.room,
                         isHost |-> (p.conn = roomData.hostSocketId),
                         currentVideoUrl |-> roomData.currentVideoUrl,
                         currentVideoFileName |-> roomData.currentVideoFileName,
                         users |-> MapValues(roomData.users)])
         others == Emit("user_joined", InRoom(connected, sio, p.room) \ {p.conn},
                        [userId |-> p.conn, username |-> p.username,
                         users |-> MapValues(roomData.users)])
     IN outbox' = IF p.existingUser THEN <<joined>> ELSE <<joined, others>>
  /\ last' = [op |-> "join_saved", conn |-> p.conn, room |-> p.room]
  /\ UNCHANGED <<connected, currentRoomId, sio, rooms, sent>>

\* saveRoomData settles in the create branch: room_joined read from
\* rooms[roomId] (lines 172-178); the read throws when the entry is gone.
JoinCreatedSaved(p) ==
  /\ p \in pending /\ p.kind = "save_create"
  /\ files' = WriteFile(p.room, p.data[1])
  /\ pending' = pending \ {p}
  /\ outbox' = IF p.room \in DOMAIN rooms
               THEN <<Emit("room_joined", Self(connected, p.conn),
                           [roomId |-> p.room,
                            isHost |-> TRUE,
                            users |-> MapValues(rooms[p.room].users),
                            currentVideoUrl |-> rooms[p.room].currentVideoUrl,
                            currentVideoFileName |-> rooms[p.room].currentVideoFileName])>>
               ELSE <<>>
  /\ last' = [op |-> "join_created_saved", conn |-> p.conn, room |-> p.room]
  /\ UNCHANGED <<connected, currentRoomId, sio, rooms, sent>>

\* ------------------------------------------------------------------ video_select
\* any member passes for the host.
IsHostOrMember(s, roomId) == roomId \in DOMAIN rooms /\ MapHas(rooms[roomId].users, s)

IsHost(s, roomId) == roomId \in DOMAIN rooms /\ rooms[roomId].hostSocketId = s

VideoSelect(s, roomId, videoUrl, fileName) ==
  /\ connected[s] = "open"
  /\ sent.select < MaxSelects
  /\ sent' = [sent EXCEPT !.select = @ + 1]
  /\ IF IsHost(s, roomId)
     THEN LET room == [rooms[roomId] EXCEPT !.currentVideoUrl = videoUrl,
                                            !.currentVideoFileName = fileName]
              k == [Cont("save_select", s, roomId) EXCEPT
                      !.videoUrl = videoUrl, !.fileName = fileName,
                      !.data = <<Serialize(room)>>]
          IN /\ CanIssue(pending, k)
             /\ rooms' = Put(rooms, roomId, room)
             /\ pending' = pending \cup {k}
             /\ outbox' = <<>>
             /\ last' = [op |-> "video_select", conn |-> s, room |-> roomId]
     ELSE /\ outbox' = <<Emit("error_event", Self(connected, s),
                              [message |-> "Only the host can select a video."])>>
          /\ last' = [op |-> "video_select:rejected", conn |-> s, room |-> roomId]
          /\ UNCHANGED <<rooms, pending>>
  /\ UNCHANGED <<connected, currentRoomId, sio, files>>

\* video_selected goes back to the sender alone (socket.emit for io.to(roomId).emit).
VideoSelectSavedToSender(p) ==
  /\ p \in pending /\ p.kind = "save_select"
  /\ files' = WriteFile(p.room, p.data[1])
  /\ pending' = pending \ {p}
  /\ outbox' = <<Emit("video_selected", Self(connected, p.conn),
                      [videoUrl |-> p.videoUrl, fileName |-> p.fileName])>>
  /\ last' = [op |-> "video_select_saved", conn |-> p.conn, room |-> p.room]
  /\ UNCHANGED <<connected, currentRoomId, sio, rooms, sent>>

\* saveRoomData settles in video_select: video_selected to the socket.io room.
VideoSelectSaved(p) ==
  /\ p \in pending /\ p.kind = "save_select"
  /\ files' = WriteFile(p.room, p.data[1])
  /\ pending' = pending \ {p}
  /\ outbox' = <<Emit("video_selected", InRoom(connected, sio, p.room),
                      [videoUrl |-> p.videoUrl, fileName |-> p.fileName])>>
  /\ last' = [op |-> "video_select_saved", conn |-> p.conn, room |-> p.room]
  /\ UNCHANGED <<connected, currentRoomId, sio, rooms, sent>>

\* ------------------------------------------------------------------ video_control
\* the host's control is written to the room's record (saveRoomData is called).
VideoControlPersisted(s, roomId, control) ==
  /\ connected[s] = "open"
  /\ outbox' = IF IsHost(s, roomId)
               THEN <<Emit("video_controlled", InRoom(connected, sio, roomId) \ {s},
                           [type |-> control])>>
               ELSE <<>>
  /\ pending' = IF IsHost(s, roomId)
                THEN pending \cup {[Cont("save_control", s, roomId) EXCEPT
                                      !.data = <<Serialize(rooms[roomId])>>]}
                ELSE pending
  /\ last' = [op |-> "video_control", conn |-> s, room |-> roomId]
  /\ UNCHANGED <<connected, currentRoomId, sio, rooms, files, sent>>

\* the control is echoed to the sender (io.to(roomId) for socket.to(roomId)).
VideoControlEcho(s, roomId, control) ==
  /\ connected[s] = "open"
  /\ outbox' = IF IsHost(s, roomId)
               THEN <<Emit("video_controlled", InRoom(connected, sio, roomId),
                           [type |-> control])>>
               ELSE <<>>
  /\ last' = [op |-> "video_control", conn |-> s, room |-> roomId]
  /\ UNCHANGED <<connected, currentRoomId, sio, rooms, files, pending, sent>>

VideoControl(s, roomId, control) ==
  /\ connected[s] = "open"
  /\ outbox' = IF IsHost(s, roomId)
               THEN <<Emit("video_controlled", InRoom(connected, sio, roomId) \ {s},
                           [type |-> control])>>
               ELSE <<>>
  /\ last' = [op |-> "video_control", conn |-> s, room |-> roomId]
  /\ UNCHANGED <<connected, currentRoomId, sio, rooms, files, pending, sent>>

\* ------------------------------------------------------------------ send_message
\* io.to(x): the open sockets in socket.io room x; a socket is in the room
\* named by its own id.
IoTo(x) == Self(connected, x) \cup InRoom(connected, sio, x)

IsMember(s, roomId) == roomId \in DOMAIN rooms /\ MapHas(rooms[roomId].users, s)

\* the message is not echoed to its sender (socket.to(roomId) for io.to(roomId)).
SendMessageToOthers(s, roomId, messageData) ==
  /\ connected[s] = "open"
  /\ outbox' = IF IsMember(s, roomId)
               THEN <<Emit("new_message", IoTo(roomId) \ {s}, [messageData |-> messageData])>>
               ELSE <<>>
  /\ last' = [op |-> "send_message", conn |-> s, room |-> roomId]
  /\ UNCHANGED <<connected, currentRoomId, sio, rooms, files, pending, sent>>

SendMessage(s, roomId, messageData) ==
  /\ connected[s] = "open"
  /\ outbox' = IF IsMember(s, roomId)
               THEN <<Emit("new_message", IoTo(roomId), [messageData |-> messageData])>>
               ELSE <<>>
  /\ last' = [op |-> "send_message", conn |-> s, room |-> roomId]
  /\ UNCHANGED <<connected, currentRoomId, sio, rooms, files, pending, sent>>

\* ------------------------------------------------------------------ request_resync
\* the request goes to the whole socket.io room instead of the host.
RequestResyncToRoom(s, roomId) ==
  /\ connected[s] = "open"
  /\ outbox' = IF IsMember(s, roomId) /\ rooms[roomId].hostSocketId # s
               THEN <<Emit("host_provide_sync_state", IoTo(roomId),
                           [requesterSocketId |-> s])>>
               ELSE <<>>
  /\ last' = [op |-> "request_resync", conn |-> s, room |-> roomId]
  /\ UNCHANGED <<connected, currentRoomId, sio, rooms, files, pending, sent>>

RequestResync(s, roomId) ==
  /\ connected[s] = "open"
  /\ outbox' = IF IsMember(s, roomId) /\ rooms[roomId].hostSocketId # s
               THEN <<Emit("host_provide_sync_state", IoTo(rooms[roomId].hostSocketId),
                           [requesterSocketId |-> s])>>
               ELSE <<>>
  /\ last' = [op |-> "request_resync", conn |-> s, room |-> roomId]
  /\ UNCHANGED <<connected, currentRoomId, sio, rooms, files, pending, sent>>

\* ------------------------------------------------------------------ host_sync_state_update
\* the sender's own entry is not skipped.
SyncEachRoom(users, s, state) ==
  [i \in 1..Len(users) |-> Emit("apply_host_sync_state", IoTo(users[i].id), [state |-> state])]

\* users.forEach: one emission per entry other than the sender, in insertion order.
SyncEach(users, s, state) ==
  LET rest == MapDelete(users, s)
  IN [i \in 1..Len(rest) |-> Emit("apply_host_sync_state", IoTo(rest[i].id), [state |-> state])]

\* targetSocketId: NULL when the payload carries none.
HostSyncStateUpdate(s, roomId, state, targetSocketId) ==
  /\ connected[s] = "open"
  /\ outbox' = IF ~IsHost(s, roomId) THEN <<>>
               ELSE IF targetSocketId # NULL
               THEN <<Emit("apply_host_sync_state", IoTo(targetSocketId), [state |-> state])>>
               ELSE SyncEach(rooms[roomId].users, s, state)
  /\ last' = [op |-> "host_sync_state_update", conn |-> s, room |-> roomId]
  /\ UNCHANGED <<connected, currentRoomId, sio, rooms, files, pending, sent>>

\* ------------------------------------------------------------------ disconnect
\* The transport closes the socket: it has left its socket.io rooms when the
\* handler runs (lines 233-259, up to the await).
Disconnect(s) ==
  /\ connected[s] = "open"
  /\ connected' = [connected EXCEPT ![s] = "closed"]
  /\ sio' = [sio EXCEPT ![s] = {}]
  /\ UNCHANGED <<files, sent>>
  /\ LET cur == currentRoomId[s]
     IN IF cur # NULL /\ cur \in DOMAIN rooms
        THEN LET room == rooms[cur]
                 users == MapDelete(room.users, s)
                 left == Emit("user_left", InRoom(connected', sio', cur),
                              [userId |-> s,
                               username |-> MapGetUsername(room.users, s),
                               users |-> MapValues(users)])
                 req == [op |-> "disconnect", conn |-> s, room |-> cur]
             IN IF Len(users) = 0
                THEN LET k == Cont("delete_disconnect", s, cur)
                         kept == Detach(pending, cur, [room EXCEPT !.users = users])
                     IN /\ CanIssue(kept, k)
                        /\ rooms' = Remove(rooms, cur)
                        /\ pending' = kept \cup {k}
                        /\ outbox' = <<left>>
                        /\ last' = req
                        /\ UNCHANGED currentRoomId
                ELSE LET elected == IF s = room.hostSocketId
                                    THEN [room EXCEPT !.users = users,
                                                      !.hostSocketId = users[1].id]
                                    ELSE [room EXCEPT !.users = users]
                         k == [Cont("save_disconnect", s, cur) EXCEPT
                                 !.data = <<Serialize(elected)>>]
                     IN /\ CanIssue(pending, k)
                        /\ rooms' = Put(rooms, cur, elected)
                        /\ pending' = pending \cup {k}
                        /\ outbox' =
                             IF s = room.hostSocketId
                             THEN <<left,
                                    Emit("promoted_to_host",
                                         Self(connected', elected.hostSocketId),
                                         [none |-> NULL]),
                                    Emit("new_host", InRoom(connected', sio', cur),
                                         [hostSocketId |-> elected.hostSocketId,
                                          hostUsername |-> users[1].username])>>
                             ELSE <<left>>
                        /\ last' = req
                        /\ UNCHANGED currentRoomId
        ELSE /\ currentRoomId' = [currentRoomId EXCEPT ![s] = NULL]
             /\ outbox' = <<>>
             /\ last' = [op |-> "disconnect:idle", conn |-> s, room |-> NULL]
             /\ UNCHANGED <<rooms, pending>>

\* saveRoomData / deleteRoomData settle in the disconnect handler (line 261).
DisconnectSaved(p) ==
  /\ p \in pending /\ p.kind = "save_disconnect"
  /\ files' = WriteFile(p.room, p.data[1])
  /\ pending' = pending \ {p}
  /\ currentRoomId' = [currentRoomId EXCEPT ![p.conn] = NULL]
  /\ outbox' = <<>>
  /\ last' = [op |-> "disconnect_saved", conn |-> p.conn, room |-> p.room]
  /\ UNCHANGED <<connected, sio, rooms, sent>>

DisconnectDeleted(p) ==
  /\ p \in pending /\ p.kind = "delete_disconnect"
  /\ files' = Unlink(p.room)
  /\ pending' = pending \ {p}
  /\ currentRoomId' = [currentRoomId EXCEPT ![p.conn] = NULL]
  /\ outbox' = <<>>
  /\ last' = [op |-> "disconnect_deleted", conn |-> p.conn, room |-> p.room]
  /\ UNCHANGED <<connected, sio, rooms, sent>>

\* ------------------------------------------------------------------ specifications
\* The room registry: connections, join_room and disconnect with their awaits.
\* The steps of the server taken by themselves leave the pages as they are.
RoomsStep(S) ==
  \/ \E s \in S : Connect(s) /\ UNCHANGED clientVars
  \/ \E s \in S, roomId \in RoomIds, password \in Passwords, username \in Usernames :
       JoinRoom(s, roomId, password, username) /\ UNCHANGED clientVars
  \/ \E p \in pending : JoinLoaded(p) /\ UNCHANGED clientVars
  \/ \E p \in pending : JoinSaved(p) /\ UNCHANGED clientVars
  \/ \E p \in pending : JoinCreatedSaved(p) /\ UNCHANGED clientVars
  \/ \E s \in S : Disconnect(s) /\ UNCHANGED clientVars
  \/ \E p \in pending : DisconnectSaved(p) /\ UNCHANGED clientVars
  \/ \E p \in pending : DisconnectDeleted(p) /\ UNCHANGED clientVars

ControlStep(S) ==
  \E s \in S, roomId \in RoomIds, control \in Controls : VideoControl(s, roomId, control) /\ UNCHANGED clientVars

SelectStep(S) ==
  \/ \E s \in S, roomId \in RoomIds, videoUrl \in VideoUrls, fileName \in FileNames :
       VideoSelect(s, roomId, videoUrl, fileName) /\ UNCHANGED clientVars
  \/ \E p \in pending : VideoSelectSaved(p) /\ UNCHANGED clientVars

ChatStep(S) ==
  \E s \in S, roomId \in RoomIds, messageData \in Messages :
    SendMessage(s, roomId, messageData) /\ UNCHANGED clientVars

ResyncStep(S) == \E s \in S, roomId \in RoomIds : RequestResync(s, roomId) /\ UNCHANGED clientVars

HostSyncStep(S) ==
  \E s \in S, roomId \in RoomIds, state \in SyncStates,
     targetSocketId \in SocketIds \cup {NULL} :
    HostSyncStateUpdate(s, roomId, state, targetSocketId) /\ UNCHANGED clientVars

\* join_room with the username left empty.
UnnamedStep(S) ==
  \E s \in S, roomId \in RoomIds, password \in Passwords :
    JoinRoom(s, roomId, password, EmptyUsername) /\ UNCHANGED clientVars

RetryStep(S) ==
  \E s \in S, roomId \in RoomIds, password \in Passwords, username \in Usernames :
    JoinRetry(s, roomId, password, username) /\ UNCHANGED clientVars

\* a host and one other connection: the most a room admits.
TwoSockets == {SocketOrder[1], SocketOrder[2]}

NextRooms == RoomsStep(SocketIds)

NextControl == RoomsStep(SocketIds) \/ ControlStep(SocketIds)

NextSelect == RoomsStep(TwoSockets) \/ SelectStep(TwoSockets)

NextChat == RoomsStep(SocketIds) \/ ChatStep(SocketIds)

NextResync == RoomsStep(SocketIds) \/ ResyncStep(SocketIds)

NextHostSync == RoomsStep(SocketIds) \/ HostSyncStep(SocketIds)

NextNames == RoomsStep(TwoSockets) \/ UnnamedStep(TwoSockets)

NextRetry == RoomsStep(SocketIds) \/ RetryStep(SocketIds)

Next ==
  \/ RoomsStep(SocketIds) \/ ControlStep(SocketIds) \/ SelectStep(SocketIds)
  \/ ChatStep(SocketIds) \/ ResyncStep(SocketIds) \/ HostSyncStep(SocketIds)
  \/ UnnamedStep(SocketIds) \/ RetryStep(SocketIds)

\* join_room and disconnect on three connections.
SpecRooms == Init /\ [][NextRooms]_vars

\* the same with video_control.
SpecControl == Init /\ [][NextControl]_vars

\* join_room, disconnect and video_select on two connections.
SpecSelect == Init /\ [][NextSelect]_vars

\* join_room, disconnect and send_message on three connections.
SpecChat == Init /\ [][NextChat]_vars

\* join_room, disconnect and request_resync on three connections.
SpecResync == Init /\ [][NextResync]_vars

\* join_room, disconnect and host_sync_state_update on three connections.
SpecHostSync == Init /\ [][NextHostSync]_vars

\* join_room, also with an empty username, and disconnect on two connections.
SpecNames == Init /\ [][NextNames]_vars

\* join_room, disconnect, and a retry by a connection that was turned away.
SpecRetry == Init /\ [][NextRetry]_vars

\* every handler on three connections.
Spec == Init /\ [][Next]_vars

\* ------------------------------------------------------------------ shared vocabulary
Usernames_(users) == {users[i].username : i \in 1..Len(users)}

Delivered(ev, s) == \E i \in 1..Len(outbox) : outbox[i].ev = ev /\ s \in outbox[i].to

JoinError(s, message) == <<Emit("join_error", Self(connected, s), [message |-> message])>>

\* ------------------------------------------------------------------ C1
UsersAtMostTwo == \A r \in DOMAIN rooms : Len(rooms[r].users) <= 2

\* a caller that is neither a member nor a namesake of a member of a full room.
Stranger(roomData, s, username) ==
  /\ Len(roomData.users) = 2
  /\ s \notin MapKeys(roomData.users)
  /\ username \notin Usernames_(roomData.users)

\* C1: a room's users map never has more than 2 entries, and a join_room with the
\* correct password against a room with 2 members, by a connection whose id and
\* username both differ from theirs, is answered with join_error "Room is full."
\* and does not add the caller. The room is the one the handler finds: the
\* registry entry, or the record it has loaded from the room's file.
C1_CapacityTwo ==
  [][ /\ UsersAtMostTwo'
      /\ \A s \in SocketIds, r \in RoomIds, pw \in Passwords, un \in Usernames :
           ( /\ JoinRoom(s, r, pw, un)
             /\ r \in DOMAIN rooms
             /\ rooms[r].password = pw
             /\ Stranger(rooms[r], s, un) )
           => (outbox' = JoinError(s, "Room is full.") /\ rooms' = rooms)
      /\ \A p \in pending :
           ( /\ JoinLoaded(p)
             /\ loadRoomData(p.room) # <<>>
             /\ loadRoomData(p.room)[1].password = p.password
             /\ Stranger(loadRoomData(p.room)[1], p.conn, p.username) )
           => ( /\ outbox' = JoinError(p.conn, "Room is full.")
                /\ rooms' = IF p.room \in DOMAIN rooms THEN rooms
                            ELSE Put(rooms, p.room, loadRoomData(p.room)[1]) )
    ]_vars

\* a third connection has just been turned away from a room with two members.
C1_Witness ==
  /\ last.op = "join_room:full"
  /\ last.room \in DOMAIN rooms
  /\ Stranger(rooms[last.room], last.conn, "u3")
  /\ outbox = JoinError(last.conn, "Room is full.")
  /\ connected[last.conn] = "open"

\* ------------------------------------------------------------------ C2
\* C2: every room in the registry with a non-empty users map has a hostSocketId
\* that is one of the keys of that users map.
C2_HostIsMember ==
  \A r \in DOMAIN rooms :
    Len(rooms[r].users) > 0 => rooms[r].hostSocketId \in MapKeys(rooms[r].users)

\* the host role has moved: by a host's disconnect or by a same-username join.
C2_Witness ==
  \E r \in DOMAIN rooms :
    /\ Len(rooms[r].users) = 2
    /\ rooms[r].hostSocketId = rooms[r].users[2].id
    /\ rooms[r].hostSocketId \in MapKeys(rooms[r].users)

\* ------------------------------------------------------------------ C3
HostOf(r) == IF r \in DOMAIN rooms THEN rooms[r].hostSocketId ELSE NULL

\* C3: a video_control sent by a connection that is not the hostSocketId of the
\* named room delivers video_controlled to no connection.
C3_NonHostControlSilent ==
  (last.op = "video_control" /\ HostOf(last.room) # last.conn)
    => \A s \in SocketIds : ~Delivered("video_controlled", s)

\* a former member whose entry was taken over sends video_control while it still
\* sits in the socket.io room with the members.
C3_Witness ==
  /\ last.op = "video_control"
  /\ last.room \in DOMAIN rooms
  /\ HostOf(last.room) # last.conn
  /\ last.conn \notin MapKeys(rooms[last.room].users)
  /\ last.room \in sio[last.conn]
  /\ InRoom(connected, sio, last.room) \ {last.conn} # {}
  /\ outbox = <<>>

\* ------------------------------------------------------------------ C4
\* C4: when the host of a room with a remaining member disconnects, the new
\* hostSocketId is the first remaining key of users, the remaining members get
\* user_left with the updated list first, promoted_to_host goes to the new host
\* only, and new_host naming it is broadcast to the room.
C4_HostFailover ==
  [][ \A s \in SocketIds, r \in RoomIds :
        ( /\ Disconnect(s)
          /\ r \in DOMAIN rooms
          /\ rooms[r].hostSocketId = s
          /\ MapDelete(rooms[r].users, s) # <<>> )
        => LET rest == MapDelete(rooms[r].users, s)
               open == {m \in MapKeys(rest) : connected'[m] = "open"}
           IN /\ r \in DOMAIN rooms'
              /\ rooms'[r].hostSocketId = rest[1].id
              /\ Len(outbox') = 3
              /\ outbox'[1].ev = "user_left"
              /\ outbox'[1].body.users = MapValues(rest)
              /\ open \subseteq outbox'[1].to
              /\ outbox'[2].ev = "promoted_to_host"
              /\ outbox'[2].to \subseteq {rest[1].id}
              /\ outbox'[3].ev = "new_host"
              /\ outbox'[3].body.hostSocketId = rest[1].id
              /\ open \subseteq outbox'[3].to
    ]_vars

\* ------------------------------------------------------------------ C5
SelectPending(m, f) ==
  \E p \in pending :
    /\ p.kind = "save_select" /\ p.fileName = f /\ p.conn # m
    /\ \E i \in 1..Len(p.data[1].users) : p.data[1].users[i].key = m

GotSelected(m, f) ==
  \E i \in 1..Len(outbox) :
    outbox[i].ev = "video_selected" /\ m \in outbox[i].to /\ outbox[i].body.fileName = f

\* the promise of saveRoomData settles.
SpecSelectFair ==
  SpecSelect /\ WF_vars(\E p \in pending : VideoSelectSaved(p) /\ UNCHANGED clientVars)

\* C5: after the host's video_select with file name F, every other connection
\* that is in the room's users map at that moment and stays connected eventually
\* receives video_selected with fileName F.
C5_SelectReachesMembers ==
  \A m \in SocketIds, f \in FileNames :
    SelectPending(m, f) ~> (GotSelected(m, f) \/ connected[m] # "open")

\* the other member has received the host's selection.
C5_Witness ==
  /\ last.op = "video_select_saved"
  /\ \E m \in SocketIds \ {last.conn} :
       /\ last.room \in DOMAIN rooms
       /\ m \in MapKeys(rooms[last.room].users)
       /\ GotSelected(m, "b.mp4")

\* ------------------------------------------------------------------ C6
\* no registry entry, nothing in flight, and yet a record on disk.
NoRecordLeft(r) == (r \notin DOMAIN rooms /\ pending = {}) => r \notin DOMAIN files

\* C6: once the last member of a room has disconnected and every storage
\* operation issued so far has completed, the room id has no entry in the
\* registry and no durable record (until the next join_room for that id).
C6_DeletedWhenEmpty ==
  [][ /\ \A s \in SocketIds, r \in RoomIds :
           (Disconnect(s) /\ r \in DOMAIN rooms /\ MapKeys(rooms[r].users) = {s})
           => r \notin DOMAIN rooms'
      /\ \A r \in RoomIds : NoRecordLeft(r)'
    ]_vars

\* ------------------------------------------------------------------ C7
Rejected == {"join_room:invalid", "join_loaded:invalid", "join_room:full",
             "join_loaded:full"}

\* C7: after the last member of a room has disconnected, a join_room for the same
\* room id with a different password succeeds: a join is turned away only from
\* a room that still has a connected member.
C7_RecreatedAfterEmpty ==
  last.op \in Rejected
    => /\ last.room \in DOMAIN rooms
       /\ \E k \in MapKeys(rooms[last.room].users) : connected[k] = "open"

\* ------------------------------------------------------------------ C8
\* C8: a join_room against an existing room with a password that differs from the
\* room's is answered with join_error "Invalid password.", also when the room
\* has 2 members, and leaves users, hostSocketId, password and video unchanged.
C8_InvalidPassword ==
  [][ /\ \A s \in SocketIds, r \in RoomIds, pw \in Passwords, un \in Usernames :
           (JoinRoom(s, r, pw, un) /\ r \in DOMAIN rooms /\ rooms[r].password # pw)
           => (outbox' = JoinError(s, "Invalid password.") /\ rooms' = rooms)
      /\ \A p \in pending :
           ( /\ JoinLoaded(p)
             /\ loadRoomData(p.room) # <<>>
             /\ loadRoomData(p.room)[1].password # p.password )
           => ( /\ outbox' = JoinError(p.conn, "Invalid password.")
                /\ rooms'[p.room] = IF p.room \in DOMAIN rooms THEN rooms[p.room]
                                    ELSE loadRoomData(p.room)[1] )
    ]_vars

\* a wrong password has just been turned away from a room with two members.
C8_Witness ==
  /\ last.op = "join_room:invalid"
  /\ last.room \in DOMAIN rooms
  /\ Len(rooms[last.room].users) = 2
  /\ last.conn \notin MapKeys(rooms[last.room].users)
  /\ outbox = JoinError(last.conn, "Invalid password.")
  /\ connected[last.conn] = "open"

\* ------------------------------------------------------------------ C9
\* C9: a join_room for a room id that exists neither in the registry nor in
\* storage creates the room with the caller as only member and host, the given
\* password and no video, and answers room_joined with isHost = true and a user
\* list that holds only the caller.
C9_CreateRoom ==
  [][ /\ \A p \in pending :
           (JoinLoaded(p) /\ loadRoomData(p.room) = <<>>)
           => rooms'[p.room] = [users |-> <<[id |-> p.conn, username |-> p.username]>>,
                                password |-> p.password,
                                currentVideoUrl |-> NULL,
                                currentVideoFileName |-> NULL,
                                hostSocketId |-> p.conn]
      /\ \A p \in pending :
           (JoinCreatedSaved(p) /\ connected[p.conn] = "open")
           => outbox' = <<Emit("room_joined", {p.conn},
                               [roomId |-> p.room,
                                isHost |-> TRUE,
                                users |-> <<p.data[1].users[1].username>>,
                                currentVideoUrl |-> NULL,
                                currentVideoFileName |-> NULL])>>
    ]_vars

\* ------------------------------------------------------------------ C10
\* C10: after a connection that was admitted to a room disconnects, its id is no
\* longer a key of that room's users map, whatever join_room attempts it made
\* before.
C10_DisconnectRemovesMember ==
  [][ \A s \in SocketIds :
        Disconnect(s) => \A r \in DOMAIN rooms' : ~MapHas(rooms'[r].users, s)
    ]_vars

\* ------------------------------------------------------------------ C11
\* the step is a host-only message from s for room r.
HostOnlyMessage(s, r) ==
  \/ \E videoUrl \in VideoUrls, fileName \in FileNames : VideoSelect(s, r, videoUrl, fileName)
  \/ \E control \in Controls : VideoControl(s, r, control)
  \/ \E state \in SyncStates, targetSocketId \in SocketIds \cup {NULL} :
       HostSyncStateUpdate(s, r, state, targetSocketId)

\* C11: a video_select, video_control or host_sync_state_update sent by a
\* connection that is not the host of the (existing) room leaves the room as it
\* is, emits exactly one message, an error_event to the caller alone, and leaves
\* the caller connected.
C11_NonHostGetsErrorEvent ==
  [][ \A s \in SocketIds, r \in RoomIds :
        (r \in DOMAIN rooms /\ HostOf(r) # s /\ HostOnlyMessage(s, r))
        => /\ rooms' = rooms
           /\ Len(outbox') = 1
           /\ outbox'[1].ev = "error_event"
           /\ outbox'[1].to = {s}
           /\ connected'[s] = "open"
    ]_vars

\* ------------------------------------------------------------------ C12
\* the connected members of room r other than s.
OtherMembers(r, s) == {m \in MapKeys(rooms[r].users) \ {s} : connected[m] = "open"}

\* C12: a video_control sent by the host delivers video_controlled with the same
\* control to every other (connected) member of the room, and nothing to the
\* sending host.
C12_HostControlBroadcast ==
  [][ \A s \in SocketIds, r \in RoomIds, control \in Controls :
        (VideoControl(s, r, control) /\ r \in DOMAIN rooms /\ HostOf(r) = s)
        => /\ \A m \in OtherMembers(r, s) :
                \E i \in 1..Len(outbox') :
                  /\ outbox'[i].ev = "video_controlled"
                  /\ m \in outbox'[i].to
                  /\ outbox'[i].body.type = control
           /\ \A i \in 1..Len(outbox') : s \notin outbox'[i].to
    ]_vars

\* the host has just paused and the other member has been told.
C12_Witness ==
  /\ last.op = "video_control"
  /\ last.room \in DOMAIN rooms
  /\ HostOf(last.room) = last.conn
  /\ OtherMembers(last.room, last.conn) # {}
  /\ outbox = <<Emit("video_controlled", OtherMembers(last.room, last.conn),
                      [type |-> "pause"])>>

\* ------------------------------------------------------------------ C13
\* the connections that are sent ev in the step taken.
Receivers(ev, box) == UNION {box[i].to : i \in {j \in 1..Len(box) : box[j].ev = ev}}

\* C13: a host_sync_state_update from the host with a targetSocketId delivers
\* apply_host_sync_state (the state sent) to that connection and to no other;
\* without one it delivers it to every (connected) member of the room other
\* than the host, to nobody else and never to the host.
C13_HostSyncDelivery ==
  [][ \A s \in SocketIds, r \in RoomIds, state \in SyncStates :
        (r \in DOMAIN rooms /\ HostOf(r) = s)
        => /\ \A target \in SocketIds :
                HostSyncStateUpdate(s, r, state, target)
                => /\ Receivers("apply_host_sync_state", outbox')
                        = {m \in {target} : connected[m] = "open"}
                   /\ \A i \in 1..Len(outbox') :
                        /\ outbox'[i].ev = "apply_host_sync_state"
                        /\ outbox'[i].body.state = state
           /\ HostSyncStateUpdate(s, r, state, NULL)
              => /\ Receivers("apply_host_sync_state", outbox') = OtherMembers(r, s)
                 /\ \A i \in 1..Len(outbox') :
                      /\ outbox'[i].ev = "apply_host_sync_state"
                      /\ outbox'[i].body.state = state
    ]_vars

\* the host has broadcast its state while a former member, whose entry was taken
\* over, is still in the socket.io room: only the member has received it.
C13_Witness ==
  /\ last.op = "host_sync_state_update"
  /\ last.room \in DOMAIN rooms
  /\ HostOf(last.room) = last.conn
  /\ \E m \in OtherMembers(last.room, last.conn) :
       outbox = <<Emit("apply_host_sync_state", {m}, [state |-> "t=10"])>>
  /\ \E x \in SocketIds \ MapKeys(rooms[last.room].users) :
       connected[x] = "open" /\ last.room \in sio[x]

\* ------------------------------------------------------------------ C14
\* C14: a request_resync from a member of the room that is not its host emits
\* host_provide_sync_state, tagged with the requester's id, to the room's
\* hostSocketId and to no other connection; from the host or from a connection
\* outside users it emits nothing.
C14_ResyncGoesToHost ==
  last.op = "request_resync"
    => outbox =
         IF /\ last.room \in DOMAIN rooms
            /\ last.conn \in MapKeys(rooms[last.room].users)
            /\ HostOf(last.room) # last.conn
         THEN <<Emit("host_provide_sync_state",
                     {h \in {HostOf(last.room)} : connected[h] = "open"},
                     [requesterSocketId |-> last.conn])>>
         ELSE <<>>

\* a guest has asked and the connected host alone has been told, while a third
\* connection sits in the socket.io room.
C14_Witness ==
  /\ last.op = "request_resync"
  /\ last.room \in DOMAIN rooms
  /\ last.conn \in MapKeys(rooms[last.room].users)
  /\ HostOf(last.room) # last.conn
  /\ outbox = <<Emit("host_provide_sync_state", {HostOf(last.room)},
                      [requesterSocketId |-> last.conn])>>
  /\ \E x \in SocketIds \ MapKeys(rooms[last.room].users) : last.room \in sio[x]

\* ------------------------------------------------------------------ C15
\* the id of the entry of users that carries username.
Namesake(users, username) ==
  (CHOOSE e \in {users[i] : i \in 1..Len(users)} : e.username = username).id

\* a room with capacity, the right password, and a member of another connection
\* id that carries the caller's username.
TakeoverCase(roomData, s, password, username) ==
  /\ roomData.password = password
  /\ Len(roomData.users) < 2
  /\ username \in Usernames_(roomData.users)
  /\ Namesake(roomData.users, username) # s

\* the namesake's entry is gone, the caller's is there, the count is the same
\* and the caller is host exactly when the namesake was.
TakenOver(old, new, s, username) ==
  LET x == Namesake(old.users, username)
  IN /\ MapKeys(new.users) = (MapKeys(old.users) \ {x}) \cup {s}
     /\ Len(new.users) = Len(old.users)
     /\ MapGetUsername(new.users, s) = username
     /\ (new.hostSocketId = s) <=> (old.hostSocketId = x)
     /\ new.password = old.password

\* C15: a join_room with the correct password against a room with fewer than 2
\* members, under the username of a member with another connection id, replaces
\* that member's entry by the caller's (same user count), and the caller becomes
\* hostSocketId if and only if the replaced connection was the host. The room is
\* the registry entry, or the record loaded when the registry has none.
C15_UsernameTakeover ==
  [][ /\ \A s \in SocketIds, r \in RoomIds, pw \in Passwords, un \in Usernames :
           ( /\ JoinRoom(s, r, pw, un)
             /\ r \in DOMAIN rooms
             /\ TakeoverCase(rooms[r], s, pw, un) )
           => (r \in DOMAIN rooms' /\ TakenOver(rooms[r], rooms'[r], s, un))
      /\ \A p \in pending :
           ( /\ JoinLoaded(p)
             /\ p.room \notin DOMAIN rooms
             /\ loadRoomData(p.room) # <<>>
             /\ TakeoverCase(loadRoomData(p.room)[1], p.conn, p.password, p.username) )
           => ( /\ p.room \in DOMAIN rooms'
                /\ TakenOver(loadRoomData(p.room)[1], rooms'[p.room], p.conn, p.username) )
    ]_vars

\* a connection has just taken over the slot and the host role of the only
\* member, which is still connected and in the socket.io room.
C15_Witness ==
  /\ last.op = "join_room:admitted"
  /\ last.room \in DOMAIN rooms
  /\ MapKeys(rooms[last.room].users) = {last.conn}
  /\ HostOf(last.room) = last.conn
  /\ \E x \in SocketIds \ {last.conn} :
       /\ connected[x] = "open"
       /\ last.room \in sio[x]
       /\ currentRoomId[x] = last.room

\* ------------------------------------------------------------------ C16
\* C16: a join_room with the correct password by a connection that is already a
\* key of the room's users (also when the room has 2 members) is admitted and
\* leaves users and hostSocketId as they are, and its room_joined carries the
\* role the connection had.
C16_RejoinIdempotent ==
  [][ /\ \A s \in SocketIds, r \in RoomIds, pw \in Passwords, un \in Usernames :
           ( /\ JoinRoom(s, r, pw, un)
             /\ r \in DOMAIN rooms
             /\ rooms[r].password = pw
             /\ s \in MapKeys(rooms[r].users) )
           => ( /\ last'.op = "join_room:admitted"
                /\ r \in DOMAIN rooms'
                /\ rooms'[r].users = rooms[r].users
                /\ rooms'[r].hostSocketId = rooms[r].hostSocketId )
      /\ \A p \in pending :
           (JoinSaved(p) /\ p.existingUser /\ connected[p.conn] = "open")
           => ( /\ Len(outbox') = 1
                /\ outbox'[1].ev = "room_joined"
                /\ outbox'[1].to = {p.conn}
                /\ outbox'[1].body.isHost = (p.data[1].hostSocketId = p.conn) )
    ]_vars

\* ------------------------------------------------------------------ C17
\* C17: a send_message from a key of the room's users delivers new_message with
\* the messageData sent to every (connected) member of the room, the sender
\* included; from any other connection it delivers nothing; neither changes
\* the registry or the files.
C17_MessageReachesRoom ==
  [][ \A s \in SocketIds, r \in RoomIds, messageData \in Messages :
        SendMessage(s, r, messageData)
        => /\ rooms' = rooms /\ files' = files
           /\ IF r \in DOMAIN rooms /\ s \in MapKeys(rooms[r].users)
              THEN /\ \A m \in OtherMembers(r, s) \cup {s} :
                        \E i \in 1..Len(outbox') :
                          /\ outbox'[i].ev = "new_message"
                          /\ m \in outbox'[i].to
                          /\ outbox'[i].body.messageData = messageData
                   /\ \A i \in 1..Len(outbox') :
                        /\ outbox'[i].ev = "new_message"
                        /\ outbox'[i].body.messageData = messageData
              ELSE outbox' = <<>>
    ]_vars

\* a member's message has reached both members of the room.
C17_Witness ==
  /\ last.op = "send_message"
  /\ last.room \in DOMAIN rooms
  /\ last.conn \in MapKeys(rooms[last.room].users)
  /\ OtherMembers(last.room, last.conn) # {}
  /\ outbox = <<Emit("new_message", OtherMembers(last.room, last.conn) \cup {last.conn},
                      [messageData |-> "hello"])>>

\* ------------------------------------------------------------------ C18
\* C18: a join_room turned away with "Invalid password." or "Room is full."
\* leaves the connection open; a later join_room by that connection with the
\* correct password against the room, when it has fewer than 2 members, is
\* admitted, and the connection receives room_joined when the save has settled.
C18_RejectionNotFatal ==
  [][ /\ \A s \in SocketIds :
           (last'.op \in Rejected /\ last'.conn = s /\ connected[s] = "open")
           => (connected'[s] = "open" /\ s \in sent'.rejected)
      /\ \A s \in SocketIds, r \in RoomIds, pw \in Passwords, un \in Usernames :
           ( /\ s \in sent.rejected
             /\ r \in DOMAIN rooms
             /\ rooms[r].password = pw
             /\ Len(rooms[r].users) < 2
             /\ JoinRoomHandler(s, r, pw, un) )
           => ( /\ last'.op = "join_room:admitted"
                /\ s \in MapKeys(rooms'[r].users)
                /\ \E k \in pending' : k.kind = "save_join" /\ k.conn = s )
      /\ \A p \in pending :
           (JoinSaved(p) /\ p.conn \in sent.rejected /\ connected[p.conn] = "open")
           => \E i \in 1..Len(outbox') :
                outbox'[i].ev = "room_joined" /\ outbox'[i].to = {p.conn}
    ]_vars

\* a connection turned away from a full room (one password only was ever used)
\* has joined under its own username after a member left, and has received
\* room_joined.
C18_Witness ==
  /\ last.op = "join_saved"
  /\ last.conn \in sent.rejected
  /\ sent.passwords = 1
  /\ sent.usernames = 3
  /\ last.room \in DOMAIN rooms
  /\ MapGetUsername(rooms[last.room].users, last.conn) = "u3"
  /\ \E x \in SocketIds : connected[x] = "closed"
  /\ Delivered("room_joined", last.conn)

\* ------------------------------------------------------------------ C19
\* C19: a join_room with an empty username is answered with a join_error, does
\* not go on to load or create the room, and no room ever holds a member with
\* an empty username.
C19_EmptyUsernameRejected ==
  [][ /\ \A s \in SocketIds, r \in RoomIds, pw \in Passwords :
           JoinRoom(s, r, pw, EmptyUsername)
           => ( /\ Len(outbox') = 1
                /\ outbox'[1].ev = "join_error"
                /\ outbox'[1].to = {s}
                /\ rooms' = rooms
                /\ pending' = pending )
      /\ \A r \in DOMAIN rooms' : EmptyUsername \notin Usernames_(rooms'[r].users)
    ]_vars

\* ------------------------------------------------------------------ C20
\* C20: every room_joined sent for an existing room carries the state the room
\* has in the registry: its currentVideoFileName (the file the host selected
\* last), the usernames of its members, the joiner among them, and isHost true
\* exactly when the joiner is its hostSocketId.
C20_RoomJoinedCarriesRoomState ==
  [][ \A p \in pending :
        (JoinSaved(p) /\ connected[p.conn] = "open")
        => /\ p.room \in DOMAIN rooms'
           /\ Len(outbox') >= 1
           /\ outbox'[1].ev = "room_joined"
           /\ outbox'[1].to = {p.conn}
           /\ LET room == rooms'[p.room]
                  body == outbox'[1].body
              IN /\ body.currentVideoFileName = room.currentVideoFileName
                 /\ body.currentVideoUrl = room.currentVideoUrl
                 /\ body.users = MapValues(room.users)
                 /\ p.conn \in MapKeys(room.users)
                 /\ body.isHost = (p.conn = room.hostSocketId)
    ]_vars

\* ------------------------------------------------------------------ C21
\* the room a join_room handled in one piece against room leaves in the registry.
SerialJoin(room, s, password, username) ==
  LET scan == JoinScan(room, s, username)
  IN IF ~PasswordOk(room.password, password) \/ RoomFull(scan.existingUser, room.users)
     THEN room
     ELSE IF scan.existingUser THEN scan.roomData
     ELSE [room EXCEPT !.users = MapSet(@, s, username)]

\* C21: join_room handlers of different connections take effect as if run one
\* after the other: a handler that resumes from loadRoomData when another has
\* registered the room meanwhile joins that room (its password, host and
\* members are kept and the caller is added as a serial join would), and a
\* creator is told isHost = true only while it is the room's hostSocketId.
C21_JoinsSerialize ==
  [][ /\ \A p \in pending :
           (JoinLoaded(p) /\ p.room \in DOMAIN rooms)
           => rooms'[p.room] = SerialJoin(rooms[p.room], p.conn, p.password, p.username)
      /\ \A p \in pending :
           (JoinCreatedSaved(p) /\ connected[p.conn] = "open" /\ outbox' # <<>>)
           => rooms[p.room].hostSocketId = p.conn
    ]_vars

\* ------------------------------------------------------------------ storage failures
\* fs.stat / fs.readFile reject with an error other than ENOENT: loadRoomData
\* logs it and returns null (lines 61-66), so the join_room handler goes on as
\* for a room that has no record.
JoinLoadFailed(p) ==
  /\ p \in pending /\ p.kind = "load"
  /\ JoinCreate(p.conn, p.room, p.password, p.username, currentRoomId, pending \ {p},
                "join_load_failed")
  /\ UNCHANGED sent

\* the caller is told about the failed write and gets no room_joined.
JoinSaveFailedTold(p) ==
  /\ p \in pending /\ p.kind = "save_join"
  /\ pending' = pending \ {p}
  /\ outbox' = <<Emit("error_event", Self(connected, p.conn),
                      [message |-> "Error saving room data"])>>
  /\ last' = [op |-> "join_save_failed", conn |-> p.conn, room |-> p.room]
  /\ UNCHANGED <<connected, currentRoomId, sio, rooms, files, sent>>

\* fs.writeFile rejects: saveRoomData logs the error and returns (lines 45-47);
\* the file is left as it was and the handler resumes as after a write.
JoinSaveFailed(p) ==
  /\ p \in pending /\ p.kind = "save_join"
  /\ pending' = pending \ {p}
  /\ LET roomData == Deref(p)
         joined == Emit("room_joined", Self(connected, p.conn),
                        [roomId |-> p.room,
                         isHost |-> (p.conn = roomData.hostSocketId),
                         currentVideoUrl |-> roomData.currentVideoUrl,
                         currentVideoFileName |-> roomData.currentVideoFileName,
                         users |-> MapValues(roomData.users)])
         others == Emit("user_joined", InRoom(connected, sio, p.room) \ {p.conn},
                        [userId |-> p.conn, username |-> p.username,
                         users |-> MapValues(roomData.users)])
     IN outbox' = IF p.existingUser THEN <<joined>> ELSE <<joined, others>>
  /\ last' = [op |-> "join_save_failed", conn |-> p.conn, room |-> p.room]
  /\ UNCHANGED <<connected, currentRoomId, sio, rooms, files, sent>>

JoinCreateSaveFailed(p) ==
  /\ p \in pending /\ p.kind = "save_create"
  /\ pending' = pending \ {p}
  /\ outbox' = IF p.room \in DOMAIN rooms
               THEN <<Emit("room_joined", Self(connected, p.conn),
                           [roomId |-> p.room,
                            isHost |-> TRUE,
                            users |-> MapValues(rooms[p.room].users),
                            currentVideoUrl |-> rooms[p.room].currentVideoUrl,
                            currentVideoFileName |-> rooms[p.room].currentVideoFileName])>>
               ELSE <<>>
  /\ last' = [op |-> "join_create_save_failed", conn |-> p.conn, room |-> p.room]
  /\ UNCHANGED <<connected, currentRoomId, sio, rooms, files, sent>>

VideoSelectSaveFailed(p) ==
  /\ p \in pending /\ p.kind = "save_select"
  /\ pending' = pending \ {p}
  /\ outbox' = <<Emit("video_selected", InRoom(connected, sio, p.room),
                      [videoUrl |-> p.videoUrl, fileName |-> p.fileName])>>
  /\ last' = [op |-> "video_select_save_failed", conn |-> p.conn, room |-> p.room]
  /\ UNCHANGED <<connected, currentRoomId, sio, rooms, files, sent>>

DisconnectSaveFailed(p) ==
  /\ p \in pending /\ p.kind = "save_disconnect"
  /\ pending' = pending \ {p}
  /\ currentRoomId' = [currentRoomId EXCEPT ![p.conn] = NULL]
  /\ outbox' = <<>>
  /\ last' = [op |-> "disconnect_save_failed", conn |-> p.conn, room |-> p.room]
  /\ UNCHANGED <<connected, sio, rooms, files, sent>>

\* fs.unlink rejects: deleteRoomData returns (lines 75-79), the file stays.
DisconnectDeleteFailed(p) ==
  /\ p \in pending /\ p.kind = "delete_disconnect"
  /\ pending' = pending \ {p}
  /\ currentRoomId' = [currentRoomId EXCEPT ![p.conn] = NULL]
  /\ outbox' = <<>>
  /\ last' = [op |-> "disconnect_delete_failed", conn |-> p.conn, room |-> p.room]
  /\ UNCHANGED <<connected, sio, rooms, files, sent>>

FailStep ==
  \/ \E p \in pending : JoinLoadFailed(p) /\ UNCHANGED clientVars
  \/ \E p \in pending : JoinSaveFailed(p) /\ UNCHANGED clientVars
  \/ \E p \in pending : JoinCreateSaveFailed(p) /\ UNCHANGED clientVars
  \/ \E p \in pending : VideoSelectSaveFailed(p) /\ UNCHANGED clientVars
  \/ \E p \in pending : DisconnectSaveFailed(p) /\ UNCHANGED clientVars
  \/ \E p \in pending : DisconnectDeleteFailed(p) /\ UNCHANGED clientVars

NextStorage == RoomsStep(TwoSockets) \/ SelectStep(TwoSockets) \/ FailStep

\* join_room, disconnect and video_select on two connections, every storage
\* promise settling either way.
SpecStorage == Init /\ [][NextStorage]_vars

\* ------------------------------------------------------------------ C22
Events(box) == {box[i].ev : i \in 1..Len(box)}

FailureOps == {"join_load_failed", "join_save_failed", "join_create_save_failed",
               "video_select_save_failed", "disconnect_save_failed",
               "disconnect_delete_failed"}

\* C22: a storage operation that fails does not reject the client operation in
\* flight and rolls nothing back: after a failed save the joiner is still sent
\* room_joined and the room is still sent video_selected, the registry is left
\* as the handler made it, a failed load makes the joiner a member, and no
\* step that follows a failure sends join_error or error_event.
C22_StorageFailureSilent ==
  [][ /\ \A p \in pending :
           (JoinSaveFailed(p) /\ connected[p.conn] = "open")
           => Len(outbox') >= 1 /\ outbox'[1].ev = "room_joined" /\ outbox'[1].to = {p.conn}
      /\ \A p \in pending :
           (JoinCreateSaveFailed(p) /\ connected[p.conn] = "open" /\ p.room \in DOMAIN rooms)
           => Len(outbox') = 1 /\ outbox'[1].ev = "room_joined" /\ outbox'[1].to = {p.conn}
      /\ \A p \in pending :
           VideoSelectSaveFailed(p)
           => outbox' = <<Emit("video_selected", InRoom(connected, sio, p.room),
                               [videoUrl |-> p.videoUrl, fileName |-> p.fileName])>>
      /\ \A p \in pending :
           JoinLoadFailed(p) => p.conn \in MapKeys(rooms'[p.room].users)
      /\ last'.op \in FailureOps
           => /\ Events(outbox') \subseteq {"room_joined", "user_joined", "video_selected"}
              /\ last'.op # "join_load_failed" => rooms' = rooms
    ]_vars

\* a join whose save failed has been answered with room_joined and has told the
\* other member, while the stored record does not list the joiner.
C22_Witness ==
  /\ last.op = "join_save_failed"
  /\ Delivered("room_joined", last.conn)
  /\ \E s \in SocketIds \ {last.conn} : Delivered("user_joined", s)
  /\ last.room \in DOMAIN rooms
  /\ MapHas(rooms[last.room].users, last.conn)
  /\ last.room \in DOMAIN files
  /\ ~ \E i \in 1..Len(files[last.room].users) : files[last.room].users[i].key = last.conn

\* ------------------------------------------------------------------ restart
\* The server process ends and is started again: the registry of the new
\* process is empty (line 18), the sockets of the old one are gone without
\* their disconnect handlers having run, its pending promises are lost, and
\* the files in server_data/rooms are as the old process left them. Followed
\* where a record is left and a client is still to connect.
Restart ==
  /\ DOMAIN files # {}
  /\ \E s \in SocketIds : connected[s] = "fresh"
  /\ connected' = [s \in SocketIds |-> IF connected[s] = "fresh" THEN "fresh" ELSE "closed"]
  /\ currentRoomId' = [s \in SocketIds |-> NULL]
  /\ sio' = [s \in SocketIds |-> {}]
  /\ rooms' = [r \in {} |-> NULL]
  /\ pending' = {}
  /\ outbox' = <<>>
  /\ last' = [op |-> "restart", conn |-> NULL, room |-> NULL]
  /\ UNCHANGED <<files, sent>>
  /\ UNCHANGED clientVars

NextRestart == RoomsStep(SocketIds) \/ SelectStep({SocketOrder[1]}) \/ Restart

\* join_room and disconnect on three connections, video_select by the first of
\* them, with restarts.
SpecRestart == Init /\ [][NextRestart]_vars

\* ------------------------------------------------------------------ C23
\* the record loadRoomData reads is the one saveRoomData wrote.
SameRecord(roomData, record) == Serialize(roomData) = record

MaxTime == 2
\* applyState timeouts that may be pending at the same time.
MaxTimers == 2

Times == 0..MaxTime
\* what getDuration / onDuration report for the medium.
Duration == MaxTime
\* a reference every browser can fetch, beside the host's blob: references.
PlayableUrls == {"https://v"}
Urls == VideoUrls \cup PlayableUrls

\* videoUrl?.startsWith('blob:') || false
IsBlobUrl(videoUrl) == videoUrl \in {"blob:v"}

\* the blob: reference is handed to the player whatever the role.
ActualPlayableUrlAny(p) == p.videoUrl

ActualPlayableUrl(p) == IF IsBlobUrl(p.videoUrl) /\ ~p.isHost THEN NULL ELSE p.videoUrl

\* The wrapper's return (lines 179-181, 264-273): ReactPlayer is part of the
\* output only for a playable url, without error and while not loading.
ShowsPlayer(p) ==
  p.joined /\ p.hasWindow /\ ActualPlayableUrl(p) # NULL /\ ~p.error /\ ~p.isLoading

\* placeholderOrErrorNode (lines 210-261): what is shown in place of the player.
Placeholder(p) ==
  IF ~p.hasWindow THEN "skeleton"
  ELSE IF p.isLoading /\ p.videoUrl # NULL /\ ~p.error THEN "loading"
  ELSE IF p.videoUrl = NULL /\ ~p.isLoading /\ ~p.error THEN "no_video"
  ELSE IF p.error THEN "error"
  ELSE IF IsBlobUrl(p.videoUrl) /\ ~p.isHost /\ p.videoUrl # NULL THEN "host_local_video"
  ELSE "nothing"

NewSurface(url) == [url |-> url, time |-> 0, playing |-> FALSE, ready |-> FALSE]

\* A render of the wrapper: ReactPlayer is mounted with url = actualPlayableUrl
\* and playing = isPlaying, or unmounted, which leaves playerRef.current null.
Render(p) ==
  IF ~ShowsPlayer(p) THEN [p EXCEPT !.surface = <<>>]
  ELSE IF p.surface = <<>> \/ p.surface[1].url # ActualPlayableUrl(p)
  THEN [p EXCEPT !.surface = <<NewSurface(ActualPlayableUrl(p))>>]
  ELSE [p EXCEPT !.surface[1].playing = IF p.surface[1].ready THEN p.isPlaying ELSE @]

\* The page stops rendering the wrapper (roomJoined false, page.tsx 301-349):
\* the wrapper's state is gone and its timeouts find no player and no state.
Unmounted(p) ==
  [p EXCEPT !.hasWindow = FALSE, !.isLoading = TRUE, !.error = FALSE,
            !.isPlaying = FALSE, !.playedSeconds = 0, !.currentDuration = 0,
            !.effectDue = FALSE, !.surface = <<>>, !.timers = <<>>]

\* React commits the state a handler has set: the wrapper's effects (lines
\* 91-111) are scheduled when it mounts or when videoUrl or isHost changed.
Commit(old, new) ==
  IF ~new.joined THEN Unmounted(new)
  ELSE LET due == ~old.joined \/ old.videoUrl # new.videoUrl \/ old.isHost # new.isHost
       IN Render([new EXCEPT !.effectDue = @ \/ due])

\* what a handler leaves: the page state it has set and its socket.emit calls.
Did(p, out) == [page |-> p, out |-> out]

\* a control that carries no time.
NoTime == -1

Control(type, time) == [type |-> type, time |-> time]

ClientEmit(ev, body) == [ev |-> ev, body |-> body]

\* the control is emitted twice.
handlePlayerControlTwice(p, control) ==
  IF p.isHost /\ p.joined
  THEN <<ClientEmit("video_control", control), ClientEmit("video_control", control)>>
  ELSE <<>>

\* handlePlayerControl (page.tsx 270-274)
handlePlayerControl(p, control) ==
  IF p.isHost /\ p.joined THEN <<ClientEmit("video_control", control)>> ELSE <<>>

\* the role is not looked at before the control is passed on.
handlePlayAnyRole(p) ==
  Did([p EXCEPT !.isPlaying = TRUE], handlePlayerControl([p EXCEPT !.isHost = TRUE],
                                                         Control("play", NoTime)))

\* handlePlay, handlePause, handleSeek (lines 146-173); hostJustSeekedRef is
\* never set, so the early return of handleSeek is not taken.
handlePlay(p) ==
  Did([p EXCEPT !.isPlaying = TRUE],
      IF p.isHost THEN handlePlayerControl(p, Control("play", NoTime)) ELSE <<>>)

handlePause(p) ==
  Did([p EXCEPT !.isPlaying = FALSE],
      IF p.isHost THEN handlePlayerControl(p, Control("pause", NoTime)) ELSE <<>>)

handleSeek(p, seconds) ==
  IF p.isHost
  THEN Did([p EXCEPT !.playedSeconds = seconds],
           handlePlayerControl(p, Control("seek", seconds)))
  ELSE Did(p, <<>>)

\* playerRef.current?.getInternalPlayer(): the media element of a loaded player.
HasInternalPlayer(p) == p.surface # <<>> /\ p.surface[1].ready

\* The imperative handle (lines 45-89). An operation on the media element is
\* followed by the element's event, i.e. by the wrapper's callback for it.
play(p) ==
  IF HasInternalPlayer(p)
  THEN handlePlay([p EXCEPT !.surface[1].playing = TRUE, !.isPlaying = TRUE])
  ELSE Did(p, <<>>)

pause(p) ==
  IF HasInternalPlayer(p)
  THEN handlePause([p EXCEPT !.surface[1].playing = FALSE, !.isPlaying = FALSE])
  ELSE Did(p, <<>>)

seekTo(p, amount) ==
  IF p.surface # <<>>
  THEN handleSeek([p EXCEPT !.surface[1].time = amount, !.playedSeconds = amount], amount)
  ELSE Did(p, <<>>)

\* time: getCurrentTime() || playedSeconds, duration: getDuration() || currentDuration.
getCurrentState(p) ==
  [time |-> IF p.surface # <<>> /\ p.surface[1].time # 0
            THEN p.surface[1].time ELSE p.playedSeconds,
   playing |-> p.isPlaying,
   duration |-> IF HasInternalPlayer(p) THEN Duration ELSE p.currentDuration]

\* applyState (lines 69-88): seek now, play or pause from a 150 ms timeout.
applyState(p, state) ==
  IF p.surface # <<>>
  THEN LET q == [p EXCEPT !.surface[1].time = state.time,
                          !.playedSeconds = state.time,
                          !.timers = Append(@, [playing |-> state.playing])]
       IN handleSeek(q, state.time)
  ELSE Did(p, <<>>)

\* videoPlayerRef.current: the handle exists while the page renders the wrapper.
HasHandle(p) == p.joined

\* ------------------------------------------------------------------ page handlers
\* the socket.emit calls of a handler, on the socket of page c.
Sent(c, out) ==
  [i \in 1..Len(out) |-> [from |-> c, ev |-> out[i].ev, body |-> out[i].body]]

\* The step of one page: its state is committed, its emissions are recorded;
\* msg is the server event handled, <<>> for a step that handles none.
PageStep(c, did, msg) ==
  /\ page' = [page EXCEPT ![c] = Commit(page[c], did.page)]
  /\ emits' = Sent(c, did.out)
  /\ heard' = IF msg = <<>> THEN heard ELSE [heard EXCEPT ![c] = msg]

\* handleRoomJoined (page.tsx 104-116)
OnRoomJoined(c, isHost, currentVideoUrl) ==
  LET p == page[c]
  IN PageStep(c, Did([p EXCEPT !.joined = TRUE, !.isHost = isHost, !.pageLoading = FALSE,
                               !.videoUrl = IF currentVideoUrl # NULL
                                            THEN currentVideoUrl ELSE @], <<>>),
              <<[ev |-> "room_joined", isHost |-> isHost, videoUrl |-> currentVideoUrl]>>)

\* handleJoinError (118-124)
OnJoinError(c) ==
  PageStep(c, Did([page[c] EXCEPT !.joined = FALSE, !.pageLoading = FALSE,
                                  !.selectTimers = 0], <<>>),
           <<[ev |-> "join_error"]>>)

\* handlePromotedToHost (136-139)
OnPromotedToHost(c) ==
  PageStep(c, Did([page[c] EXCEPT !.isHost = TRUE], <<>>), <<[ev |-> "promoted_to_host"]>>)

\* handleVideoSelected (148-162)
OnVideoSelected(c, videoUrl) ==
  LET p == page[c]
      out == IF ~p.isHost /\ HasHandle(p)
             THEN <<ClientEmit("request_resync", [none |-> NULL])>>
             ELSE IF p.isHost /\ HasHandle(p)
             THEN <<ClientEmit("host_sync_state_update",
                               [state |-> [getCurrentState(p) EXCEPT !.time = 0],
                                targetSocketId |-> NULL])>>
             ELSE <<>>
  IN PageStep(c, Did([p EXCEPT !.videoUrl = videoUrl], out),
              <<[ev |-> "video_selected", videoUrl |-> videoUrl]>>)

\* handleVideoControlled (164-170)
OnVideoControlled(c, control) ==
  LET p == page[c]
      did == IF ~p.isHost /\ HasHandle(p)
             THEN CASE control.type = "play" -> play(p)
                    [] control.type = "pause" -> pause(p)
                    [] OTHER -> IF control.time # NoTime THEN seekTo(p, control.time)
                                ELSE Did(p, <<>>)
             ELSE Did(p, <<>>)
  IN PageStep(c, did, <<[ev |-> "video_controlled", control |-> control]>>)

\* handleHostProvideSyncState (172-181)
OnHostProvideSyncState(c, requesterSocketId) ==
  LET p == page[c]
      out == IF p.isHost /\ HasHandle(p)
             THEN <<ClientEmit("host_sync_state_update",
                               [state |-> getCurrentState(p),
                                targetSocketId |-> requesterSocketId])>>
             ELSE <<>>
  IN PageStep(c, Did(p, out),
              <<[ev |-> "host_provide_sync_state",
                 requesterSocketId |-> requesterSocketId]>>)

\* handleApplyHostSyncState (183-188)
OnApplyHostSyncState(c, state) ==
  LET p == page[c]
      did == IF ~p.isHost /\ HasHandle(p) THEN applyState(p, state) ELSE Did(p, <<>>)
  IN /\ Len(p.timers) < MaxTimers
     /\ PageStep(c, did, <<[ev |-> "apply_host_sync_state", state |-> state]>>)

\* ------------------------------------------------------------------ wrapper steps
\* The effects of the wrapper run (lines 91-111).
UrlEffect(c) ==
  LET p == page[c]
      q == [p EXCEPT !.hasWindow = TRUE, !.effectDue = FALSE]
      r == IF ActualPlayableUrl(q) # NULL
           THEN [q EXCEPT !.isLoading = TRUE, !.error = FALSE,
                          !.isPlaying = FALSE, !.playedSeconds = 0]
           ELSE [q EXCEPT !.isLoading = FALSE, !.error = FALSE]
  IN /\ p.effectDue
     /\ PageStep(c, Did(r, <<>>), <<>>)

\* The oldest applyState timeout fires (lines 79-86). Effects scheduled by a
\* commit run before a timeout that was set around that commit.
TimerFire(c) ==
  LET p == page[c]
      t == Head(p.timers)
      q == [p EXCEPT !.timers = Tail(@)]
      did == IF HasInternalPlayer(q)
             THEN IF t.playing
                  THEN handlePlay([q EXCEPT !.surface[1].playing = TRUE, !.isPlaying = TRUE])
                  ELSE handlePause([q EXCEPT !.surface[1].playing = FALSE, !.isPlaying = FALSE])
             ELSE Did([q EXCEPT !.isPlaying = t.playing], <<>>)
  IN /\ p.timers # <<>>
     /\ ~p.effectDue
     /\ PageStep(c, did, <<>>)

\* onReady and onDuration of a player that has loaded its medium (113-121, 175-177).
HandleReady(c) ==
  LET p == page[c]
      out == IF ~p.isHost /\ ActualPlayableUrl(p) # NULL
             THEN <<ClientEmit("request_resync", [none |-> NULL])>> ELSE <<>>
  IN /\ p.surface # <<>> /\ ~p.surface[1].ready
     /\ PageStep(c, Did([p EXCEPT !.surface[1].ready = TRUE, !.isLoading = FALSE,
                                  !.currentDuration = Duration], out), <<>>)

\* onError of the player (123-144).
HandleError(c) ==
  LET p == page[c]
  IN /\ p.surface # <<>>
     /\ PageStep(c, Did([p EXCEPT !.error = TRUE, !.isLoading = FALSE], <<>>), <<>>)

\* onProgress while the medium plays (156-160).
HandleProgress(c) ==
  LET p == page[c]
  IN /\ HasInternalPlayer(p) /\ p.surface[1].playing /\ p.surface[1].time < MaxTime
     /\ PageStep(c, Did([p EXCEPT !.surface[1].time = @ + 1,
                                  !.playedSeconds = p.surface[1].time + 1], <<>>), <<>>)

\* The user works the native controls, which only the host has (controls =
\* isHost, line 189): the media element changes and fires its event.
UserPlay(c) ==
  LET p == page[c]
  IN /\ HasInternalPlayer(p) /\ p.isHost /\ ~p.surface[1].playing
     /\ PageStep(c, handlePlay([p EXCEPT !.surface[1].playing = TRUE]), <<>>)

UserPause(c) ==
  LET p == page[c]
  IN /\ HasInternalPlayer(p) /\ p.isHost /\ p.surface[1].playing
     /\ PageStep(c, handlePause([p EXCEPT !.surface[1].playing = FALSE]), <<>>)

UserSeek(c, seconds) ==
  LET p == page[c]
  IN /\ HasInternalPlayer(p) /\ p.isHost
     /\ PageStep(c, handleSeek([p EXCEPT !.surface[1].time = seconds], seconds), <<>>)

\* requestResyncWithHost: the "Sync with Host" button (page.tsx 276-281, 367-369).
SyncWithHost(c) ==
  LET p == page[c]
  IN /\ p.joined /\ ~p.isHost
     /\ PageStep(c, Did(p, <<ClientEmit("request_resync", [none |-> NULL])>>), <<>>)

\* handleVideoSelectByHost (page.tsx 248-268), called by VideoUpload with the
\* blob: reference of the chosen file; the 200 ms timeout is set when the
\* handle exists.
UserSelectVideo(c, url) ==
  LET p == page[c]
  IN /\ p.joined /\ p.isHost
     /\ p.selectTimers < MaxTimers
     /\ PageStep(c, Did([p EXCEPT !.videoUrl = url, !.selectTimers = @ + 1],
                        <<ClientEmit("video_select", [videoUrl |-> url])>>), <<>>)

\* that timeout fires (259-265).
SelectTimerFire(c) ==
  LET p == page[c]
      q == [p EXCEPT !.selectTimers = @ - 1]
      out == IF HasHandle(p)
             THEN <<ClientEmit("host_sync_state_update",
                               [state |-> [getCurrentState(p) EXCEPT !.time = 0],
                                targetSocketId |-> NULL])>>
             ELSE <<>>
  IN /\ p.selectTimers > 0
     /\ ~p.effectDue
     /\ PageStep(c, Did(q, out), <<>>)

\* ------------------------------------------------------------------ one page
\* the video_controlled and apply_host_sync_state payloads a server relays.
ControlMsgs ==
  {Control("play", NoTime), Control("pause", NoTime)} \cup {Control("seek", t) : t \in Times}

PlayerStates == [time : Times, playing : BOOLEAN, duration : {Duration}]

\* a step of a page taken by itself: the server and the wires are not involved.
Alone == UNCHANGED <<serverVars, inbox, uplink, chat>>

\* the server events that reach a page, in whatever order the server sends them.
PageHears(c) ==
  \/ \E isHost \in BOOLEAN, url \in Urls \cup {NULL} : OnRoomJoined(c, isHost, url) /\ Alone
  \/ OnJoinError(c) /\ Alone
  \/ OnPromotedToHost(c) /\ Alone
  \/ \E url \in Urls : OnVideoSelected(c, url) /\ Alone
  \/ \E control \in ControlMsgs : OnVideoControlled(c, control) /\ Alone
  \/ \E s \in SocketIds \ {c} : OnHostProvideSyncState(c, s) /\ Alone
  \/ \E state \in PlayerStates : OnApplyHostSyncState(c, state) /\ Alone

\* what the page does by itself: effects, timeouts, player callbacks, the user.
PageActs(c) ==
  \/ UrlEffect(c) /\ Alone
  \/ TimerFire(c) /\ Alone
  \/ SelectTimerFire(c) /\ Alone
  \/ HandleReady(c) /\ Alone
  \/ HandleError(c) /\ Alone
  \/ HandleProgress(c) /\ Alone
  \/ UserPlay(c) /\ Alone
  \/ UserPause(c) /\ Alone
  \/ \E seconds \in Times : UserSeek(c, seconds) /\ Alone
  \/ SyncWithHost(c) /\ Alone
  \/ \E url \in VideoUrls : UserSelectVideo(c, url) /\ Alone

ThePage == SocketOrder[1]

NextPage == PageHears(ThePage) \/ PageActs(ThePage)

\* one room page and the server events that reach it.
SpecPage == Init /\ [][NextPage]_vars

\* ------------------------------------------------------------------ C24
\* a guest page whose wrapper has settled on a reference its player may load.
GuestWithVideo(p) ==
  p.joined /\ ~p.isHost /\ ~p.effectDue /\ ActualPlayableUrl(p) # NULL

\* C24: on a guest, apply_host_sync_state {time T, playing P} first seeks the
\* media surface to T and leaves its play state alone, and sets a timeout
\* for P; when that timeout fires with no other server event handled in
\* between, the surface is at T or beyond and plays exactly when P.
C24_ApplyStateTwoPhase ==
  [][ \A c \in SocketIds :
        /\ \A state \in PlayerStates :
             (OnApplyHostSyncState(c, state) /\ GuestWithVideo(page[c]))
             => /\ page'[c].surface # <<>>
                /\ page'[c].surface[1].time = state.time
                /\ page[c].surface # <<>>
                     => page'[c].surface[1].playing = page[c].surface[1].playing
                /\ page'[c].timers = Append(page[c].timers, [playing |-> state.playing])
        /\ ( /\ TimerFire(c)
             /\ ~page[c].isHost
             /\ heard[c] # <<>>
             /\ heard[c][1].ev = "apply_host_sync_state"
             /\ Len(page[c].timers) = 1 )
           => /\ page'[c].surface # <<>>
              /\ page'[c].surface[1].time >= heard[c][1].state.time
              /\ page'[c].surface[1].playing = heard[c][1].state.playing
    ]_vars

\* ------------------------------------------------------------------ C25
\* C25: on a host page a play, a pause and a seek the user makes on the
\* player each emit exactly one video_control of that type, for a seek with
\* its time; a video_controlled or an apply_host_sync_state handled by a host
\* page leaves its player, its play state, its position and its timeouts as
\* they are and emits nothing.
C25_HostEmitsOnce ==
  [][ \A c \in SocketIds :
        page[c].isHost
        => /\ (HasInternalPlayer(page[c]) /\ UserPlay(c))
                => emits' = Sent(c, <<ClientEmit("video_control", Control("play", NoTime))>>)
           /\ (HasInternalPlayer(page[c]) /\ UserPause(c))
                => emits' = Sent(c, <<ClientEmit("video_control", Control("pause", NoTime))>>)
           /\ \A seconds \in Times :
                (HasInternalPlayer(page[c]) /\ UserSeek(c, seconds))
                => emits' = Sent(c, <<ClientEmit("video_control", Control("seek", seconds))>>)
           /\ \A control \in ControlMsgs :
                ( /\ heard'[c] = <<[ev |-> "video_controlled", control |-> control]>>
                  /\ OnVideoControlled(c, control) )
                => page' = page /\ emits' = <<>>
           /\ \A state \in PlayerStates :
                ( /\ heard'[c] = <<[ev |-> "apply_host_sync_state", state |-> state]>>
                  /\ OnApplyHostSyncState(c, state) )
                => page' = page /\ emits' = <<>>
    ]_vars

\* a host whose player plays has handled a video_controlled pause and goes on
\* playing; the user has then sought, which was emitted.
C25_Witness ==
  \E c \in SocketIds :
    /\ page[c].isHost
    /\ HasInternalPlayer(page[c])
    /\ page[c].surface[1].playing
    /\ heard[c] = <<[ev |-> "video_controlled", control |-> Control("pause", NoTime)]>>
    /\ emits = Sent(c, <<ClientEmit("video_control", Control("seek", 1))>>)

\* ------------------------------------------------------------------ C26
\* C26: a page whose role is guest never emits video_control, whatever it
\* handles and whatever callbacks its player fires.
C26_GuestNeverEmitsControl ==
  [][ \A i \in 1..Len(emits') :
        emits'[i].ev = "video_control" => page[emits'[i].from].isHost
    ]_vars

\* a guest has applied a video_controlled play to its player, whose onPlay
\* callback ran, and has emitted nothing.
C26_Witness ==
  \E c \in SocketIds :
    /\ page[c].joined /\ ~page[c].isHost
    /\ HasInternalPlayer(page[c])
    /\ page[c].surface[1].playing
    /\ page[c].isPlaying
    /\ heard[c] = <<[ev |-> "video_controlled", control |-> Control("play", NoTime)]>>
    /\ emits = <<>>

\* ------------------------------------------------------------------ C27
\* C27: a guest page never has a player that was given a blob: reference;
\* while its role is guest and its reference is a blob: one, the url for the
\* player is empty, no player is rendered, and once the wrapper's effects have
\* run the placeholder for the host's local video is shown.
C27_GuestNoBlob ==
  \A c \in SocketIds :
    LET p == page[c]
    IN /\ (p.surface # <<>> /\ ~p.isHost) => ~IsBlobUrl(p.surface[1].url)
       /\ (p.joined /\ ~p.isHost /\ IsBlobUrl(p.videoUrl))
            => /\ ActualPlayableUrl(p) = NULL
               /\ p.surface = <<>>
               /\ ~p.effectDue => Placeholder(p) = "host_local_video"

\* a guest that had a player for a playable reference shows the placeholder
\* after the host has selected a local file.
C27_Witness ==
  \E c \in SocketIds :
    /\ page[c].joined /\ ~page[c].isHost /\ ~page[c].effectDue
    /\ IsBlobUrl(page[c].videoUrl)
    /\ page[c].currentDuration = Duration
    /\ Placeholder(page[c]) = "host_local_video"

\* ------------------------------------------------------------------ C28
\* a guest page that shows the placeholder for the host's local video.
ShowsHostLocalVideo(p) ==
  p.joined /\ ~p.isHost /\ ~p.effectDue /\ Placeholder(p) = "host_local_video"

\* C28: a guest that shows the placeholder for a blob: reference applies the
\* server's commands to its tracked playback state: video_controlled play and
\* pause set isPlaying, video_controlled seek and apply_host_sync_state set
\* playedSeconds, and apply_host_sync_state sets a timeout for its play state.
C28_PlaceholderTracksState ==
  [][ \A c \in SocketIds :
        ShowsHostLocalVideo(page[c])
        => /\ \A control \in ControlMsgs :
                ( /\ heard'[c] = <<[ev |-> "video_controlled", control |-> control]>>
                  /\ OnVideoControlled(c, control) )
                => /\ control.type = "play" => page'[c].isPlaying
                   /\ control.type = "pause" => ~page'[c].isPlaying
                   /\ control.type = "seek" => page'[c].playedSeconds = control.time
           /\ \A state \in PlayerStates :
                ( /\ heard'[c] = <<[ev |-> "apply_host_sync_state", state |-> state]>>
                  /\ OnApplyHostSyncState(c, state) )
                => /\ page'[c].playedSeconds = state.time
                   /\ page'[c].timers = Append(page[c].timers, [playing |-> state.playing])
    ]_vars

\* ------------------------------------------------------------------ C29
\* the play state the server event handled last asks for, <<>> when it asks for none.
Commanded(msg) ==
  IF msg = <<>> THEN <<>>
  ELSE IF msg[1].ev = "apply_host_sync_state" THEN <<msg[1].state.playing>>
  ELSE IF msg[1].ev = "video_controlled" /\ msg[1].control.type \in {"play", "pause"}
  THEN <<msg[1].control.type = "play">>
  ELSE <<>>

\* C29: on a guest page, when the last pending applyState timeout has fired,
\* isPlaying is what the last server event handled that sets the play state
\* asked for: a timeout does not undo a command that came after the event
\* that set it.
C29_LastMessageWins ==
  [][ \A c \in SocketIds :
        ( /\ page[c].joined /\ ~page[c].isHost
          /\ Len(page[c].timers) = 1
          /\ Commanded(heard[c]) # <<>>
          /\ TimerFire(c) )
        => page'[c].isPlaying = Commanded(heard[c])[1]
    ]_vars

\* ------------------------------------------------------------------ pages and server
\* Two pages, the server and the wires between them. socket.io delivers the
\* events of one connection in the order they were emitted, each way.

\* resync messages that may be on the wires at the same time.
MaxWire == 2

\* the room the pages were opened on (the roomId of the URL).
PageRoom == CHOOSE r \in RoomIds : TRUE

\* the server events whose page handlers touch the state kept here
\* (page.tsx 194-204); the others update the user list or show a toast.
Handled ==
  {"room_joined", "join_error", "promoted_to_host", "video_selected",
   "video_controlled", "host_provide_sync_state", "apply_host_sync_state"}

\* the emissions of a server step, put on the wires to their receivers in order.
RECURSIVE PostOf(_, _, _)
PostOf(box, wires, listened) ==
  IF box = <<>> THEN wires
  ELSE LET e == Head(box)
       IN PostOf(Tail(box),
                 [s \in SocketIds |->
                    IF s \in e.to /\ e.ev \in listened
                    THEN Append(wires[s], [ev |-> e.ev, body |-> e.body])
                    ELSE wires[s]],
                 listened)

Post(box, wires) == PostOf(box, wires, Handled)

InFlight(wires, S, ev) ==
  Cardinality({<<s, i>> \in S \X (1..(MaxWire + MaxJoins + MaxJoins)) :
                 i <= Len(wires[s]) /\ wires[s][i].ev = ev})

\* a server step: its emissions go on the wires, the pages stay as they are.
Wired ==
  /\ inbox' = Post(outbox', inbox)
  /\ emits' = <<>>
  /\ UNCHANGED <<page, heard, chat>>

\* the next event of connection s on its way to the server is ev.
Arrives(s, ev) == uplink[s] # <<>> /\ Head(uplink[s]).ev = ev

Taken(s) == uplink' = [uplink EXCEPT ![s] = Tail(@)]

WireConnect(s) == Connect(s) /\ Wired /\ UNCHANGED uplink

\* join_room arrives. The password and the username it carries are read by the
\* server only, so they are drawn when the server reads them.
WireJoinRoom(s) ==
  /\ Arrives(s, "join_room")
  /\ \E password \in Passwords, username \in Usernames :
       JoinRoom(s, PageRoom, password, username)
  /\ Wired /\ Taken(s)

WireJoinLoaded(p) == JoinLoaded(p) /\ Wired /\ UNCHANGED uplink

WireJoinSaved(p) == JoinSaved(p) /\ Wired /\ UNCHANGED uplink

WireJoinCreatedSaved(p) == JoinCreatedSaved(p) /\ Wired /\ UNCHANGED uplink

WireRequestResync(s) ==
  /\ Arrives(s, "request_resync")
  /\ RequestResync(s, PageRoom)
  /\ Wired /\ Taken(s)

WireHostSyncStateUpdate(s) ==
  /\ Arrives(s, "host_sync_state_update")
  /\ LET body == Head(uplink[s]).body
     IN HostSyncStateUpdate(s, PageRoom, body.state, body.targetSocketId)
  /\ Wired /\ Taken(s)

\* The transport closes connection s: what was on its wires is lost.
WireDisconnect(s) ==
  /\ Disconnect(s)
  /\ inbox' = [Post(outbox', inbox) EXCEPT ![s] = <<>>]
  /\ uplink' = [uplink EXCEPT ![s] = <<>>]
  /\ emits' = <<>>
  /\ UNCHANGED <<page, heard, chat>>

WireDisconnectSaved(p) == DisconnectSaved(p) /\ Wired /\ UNCHANGED uplink

WireDisconnectDeleted(p) == DisconnectDeleted(p) /\ Wired /\ UNCHANGED uplink

\* the next server event on its way to page c is ev.
Reaches(c, ev) == inbox[c] # <<>> /\ Head(inbox[c]).ev = ev

\* a page step: what it emitted goes on the wire to the server.
Emitted(c) == uplink' = [uplink EXCEPT ![c] = @ \o emits']

Dispatched(c) ==
  /\ inbox' = [inbox EXCEPT ![c] = Tail(@)]
  /\ Emitted(c)
  /\ UNCHANGED <<serverVars, chat>>

ByItself(c) ==
  /\ Emitted(c)
  /\ UNCHANGED <<serverVars, inbox, chat>>

\* join_room is emitted: by the mount effect when a password is stored
\* (page.tsx 64-74), by handlePasswordSubmit otherwise (221-246).
handlePasswordSubmit(c) ==
  LET p == page[c]
  IN /\ connected[c] = "open"
     /\ ~p.joined /\ ~p.pageLoading
     /\ sent.join + InFlight(uplink, SocketIds, "join_room") < MaxJoins
     /\ PageStep(c, Did([p EXCEPT !.pageLoading = TRUE],
                        <<ClientEmit("join_room", [none |-> NULL])>>), <<>>)
     /\ ByItself(c)

WireRoomJoined(c) ==
  /\ Reaches(c, "room_joined")
  /\ LET body == Head(inbox[c]).body
     IN OnRoomJoined(c, body.isHost, body.currentVideoUrl)
  /\ Dispatched(c)

WireJoinError(c) == Reaches(c, "join_error") /\ OnJoinError(c) /\ Dispatched(c)

WireHostProvideSyncState(c) ==
  /\ Reaches(c, "host_provide_sync_state")
  /\ OnHostProvideSyncState(c, Head(inbox[c]).body.requesterSocketId)
  /\ Dispatched(c)

WireApplyHostSyncState(c) ==
  /\ Reaches(c, "apply_host_sync_state")
  /\ OnApplyHostSyncState(c, Head(inbox[c]).body.state)
  /\ Dispatched(c)

WirePromotedToHost(c) ==
  Reaches(c, "promoted_to_host") /\ OnPromotedToHost(c) /\ Dispatched(c)

WireUrlEffect(c) == UrlEffect(c) /\ ByItself(c)

\* the guest presses "Sync with Host".
WireSyncWithHost(c) ==
  /\ connected[c] = "open"
  /\ InFlight(uplink, SocketIds, "request_resync")
       + InFlight(inbox, SocketIds, "host_provide_sync_state")
       + InFlight(uplink, SocketIds, "host_sync_state_update")
       + InFlight(inbox, SocketIds, "apply_host_sync_state") < MaxWire
  /\ SyncWithHost(c)
  /\ ByItself(c)

NextWire ==
  \/ \E s \in TwoSockets : WireConnect(s)
  \/ \E s \in TwoSockets : WireJoinRoom(s)
  \/ \E p \in pending : WireJoinLoaded(p)
  \/ \E p \in pending : WireJoinSaved(p)
  \/ \E p \in pending : WireJoinCreatedSaved(p)
  \/ \E s \in TwoSockets : WireDisconnect(s)
  \/ \E p \in pending : WireDisconnectSaved(p)
  \/ \E p \in pending : WireDisconnectDeleted(p)
  \/ \E s \in TwoSockets : WireRequestResync(s)
  \/ \E s \in TwoSockets : WireHostSyncStateUpdate(s)
  \/ \E c \in TwoSockets : handlePasswordSubmit(c)
  \/ \E c \in TwoSockets : WireRoomJoined(c)
  \/ \E c \in TwoSockets : WireJoinError(c)
  \/ \E c \in TwoSockets : WireHostProvideSyncState(c)
  \/ \E c \in TwoSockets : WireApplyHostSyncState(c)
  \/ \E c \in TwoSockets : WirePromotedToHost(c)
  \/ \E c \in TwoSockets : WireUrlEffect(c)
  \/ \E c \in TwoSockets : WireSyncWithHost(c)

\* two pages and the server.
SpecWire == Init /\ [][NextWire]_vars

\* Node runs the handler of every event that has arrived and every fs promise
\* settles; the browser dispatches every event it has received and runs the
\* effects a commit has scheduled. What the users do is not forced.
SpecWireFair ==
  /\ SpecWire
  /\ \A s \in TwoSockets :
       /\ WF_vars(WireJoinRoom(s))
       /\ WF_vars(WireRequestResync(s))
       /\ WF_vars(WireHostSyncStateUpdate(s))
       /\ WF_vars(WireRoomJoined(s))
       /\ WF_vars(WireJoinError(s))
       /\ WF_vars(WirePromotedToHost(s))
       /\ WF_vars(WireHostProvideSyncState(s))
       /\ WF_vars(WireApplyHostSyncState(s))
       /\ WF_vars(WireUrlEffect(s))
  /\ WF_vars(\E p \in pending : WireJoinLoaded(p))
  /\ WF_vars(\E p \in pending : WireJoinSaved(p))
  /\ WF_vars(\E p \in pending : WireJoinCreatedSaved(p))
  /\ WF_vars(\E p \in pending : WireDisconnectSaved(p))
  /\ WF_vars(\E p \in pending : WireDisconnectDeleted(p))

\* ------------------------------------------------------------------ C30
\* the registry names h as the host of the room and h is connected.
HostIs(h) ==
  /\ PageRoom \in DOMAIN rooms
  /\ rooms[PageRoom].hostSocketId = h
  /\ connected[h] = "open"

\* page c has just emitted request_resync as a guest of the room h hosts.
Asks(c, h) ==
  /\ emits = <<[from |-> c, ev |-> "request_resync", body |-> [none |-> NULL]]>>
  /\ connected[c] = "open"
  /\ HostIs(h) /\ h # c
  /\ MapHas(rooms[PageRoom].users, c)

\* the last server event page c has handled is apply_host_sync_state.
Answered(c) == heard[c] # <<>> /\ heard[c][1].ev = "apply_host_sync_state"

\* C30: when a guest emits request_resync while the room has a connected
\* host, then the guest eventually receives apply_host_sync_state, unless the
\* host stops being the host or the guest's connection closes.
C30_ResyncRoundTrip ==
  \A c \in TwoSockets, h \in TwoSockets :
    Asks(c, h) ~> (Answered(c) \/ ~HostIs(h) \/ connected[c] # "open")

\* ------------------------------------------------------------------ C31
\* C31: once every storage operation issued by join_room, video_select and
\* disconnect handlers has settled (none of them failing), every room of the
\* registry has a stored record, and the record's users, password, video
\* reference and file name, and hostSocketId are those of the room in memory.
C31_DurableConverges ==
  pending = {}
    => \A r \in DOMAIN rooms : r \in DOMAIN files /\ SameRecord(rooms[r], files[r])

\* ------------------------------------------------------------------ C32
\* join_room and disconnect with the four handlers that only relay, on two
\* connections.
NextRelay ==
  \/ RoomsStep(TwoSockets) \/ ControlStep(TwoSockets) \/ ChatStep(TwoSockets)
  \/ ResyncStep(TwoSockets) \/ HostSyncStep(TwoSockets)

SpecRelay == Init /\ [][NextRelay]_vars

RelayOps == {"video_control", "request_resync", "host_sync_state_update", "send_message"}

\* C32: a video_control, request_resync, host_sync_state_update or send_message
\* handler, whoever the sender is, leaves every room of the registry as it is
\* (users, password, video reference, hostSocketId) and issues no storage
\* operation: the directory and the set of operations in flight are unchanged.
C32_RelaysChangeNothing ==
  [][ last'.op \in RelayOps
      => /\ rooms' = rooms
         /\ files' = files
         /\ pending' = pending
    ]_vars

\* the host has relayed a control to the other member of its room.
C32_Witness ==
  /\ last.op = "video_control"
  /\ last.room \in DOMAIN rooms
  /\ HostOf(last.room) = last.conn
  /\ outbox # <<>>
  /\ outbox[1].to # {}

\* ------------------------------------------------------------------ C33
\* the step of connection s has put s in the place of the host's entry, whose
\* username it carries.
HostEntryReplaced(old, new, s) ==
  /\ new.hostSocketId = s
  /\ MapHas(new.users, s)
  /\ ~MapHas(new.users, old.hostSocketId)
  /\ MapHas(old.users, old.hostSocketId)
  /\ MapGetUsername(new.users, s) = MapGetUsername(old.users, old.hostSocketId)

\* C33: a step of a join_room or disconnect handler of a connection that is not
\* the host of a room leaves that room's hostSocketId as it is, unless the
\* step is a join that replaces the host's entry under the host's username, in
\* which case the joiner becomes the host.
C33_HostKeptByOthers ==
  [][ \A r \in DOMAIN rooms :
        (r \in DOMAIN rooms' /\ rooms[r].hostSocketId # last'.conn)
        => \/ rooms'[r].hostSocketId = rooms[r].hostSocketId
           \/ HostEntryReplaced(rooms[r], rooms'[r], last'.conn)
    ]_vars

\* ------------------------------------------------------------------ C34
\* a second room id for a connection to name in a later join_room.
OtherRoomIds == {"r2"}

\* join_room naming the second room.
MoveStep(S) ==
  \E s \in S, roomId \in OtherRoomIds, password \in Passwords, username \in Usernames :
    JoinRoom(s, roomId, password, username) /\ UNCHANGED clientVars

NextMove == RoomsStep(TwoSockets) \/ MoveStep(TwoSockets)

\* join_room and disconnect on two connections and two rooms.
SpecMove == Init /\ [][NextMove]_vars

\* the rooms of the registry whose users map has the key s.
RoomsOf(s) == {r \in DOMAIN rooms : MapHas(rooms[r].users, s)}

\* C34: a connection id is a key of the users map of at most one room of the
\* registry at any time.
C34_MemberOfOneRoom ==
  \A s \in SocketIds : Cardinality(RoomsOf(s)) <= 1

\* ------------------------------------------------------------------ C35
\* the events the server emits to a socket.io room.
RoomEvents ==
  {"video_selected", "video_controlled", "new_message", "user_joined", "user_left",
   "new_host"}

\* C35: an event broadcast to a room reaches only connections that are keys of
\* the room's users map when it is emitted; a connection whose entry was
\* replaced by a join under its username receives none of them.
C35_BroadcastToMembersOnly ==
  \A i \in 1..Len(outbox) :
    outbox[i].ev \in RoomEvents
    => outbox[i].to \subseteq (IF last.room \in DOMAIN rooms
                               THEN MapKeys(rooms[last.room].users) ELSE {})

\* ------------------------------------------------------------------ C36
\* nothing is on the wires and no handler of the server is suspended.
Quiet ==
  /\ pending = {}
  /\ \A s \in SocketIds : inbox[s] = <<>> /\ uplink[s] = <<>>

\* the connected clients whose page has joined and holds isHost true.
LocalHosts == {c \in SocketIds : connected[c] = "open" /\ page[c].joined /\ page[c].isHost}

\* C36: once every message in flight has been delivered, at most one connected
\* client of the room has its local isHost flag set, and that client is the
\* connection the server's hostSocketId names for the room.
C36_OneLocalHost ==
  Quiet => /\ Cardinality(LocalHosts) <= 1
           /\ \A c \in LocalHosts :
                PageRoom \in DOMAIN rooms /\ rooms[PageRoom].hostSocketId = c

\* ------------------------------------------------------------------ C37
\* C37: a join_room against a room of the registry that has 2 members, sent by
\* a connection that is not one of them, leaves the room's users with the same
\* connection ids, whether the join is turned away or not.
C37_FullRoomKeepsMembers ==
  [][ \A r \in DOMAIN rooms, s \in SocketIds :
        ( /\ Len(rooms[r].users) = 2
          /\ s \notin MapKeys(rooms[r].users)
          /\ \E pw \in Passwords, un \in Usernames : JoinRoom(s, r, pw, un) )
        => /\ r \in DOMAIN rooms'
           /\ MapKeys(rooms'[r].users) = MapKeys(rooms[r].users)
    ]_vars

\* ------------------------------------------------------------------ C38
\* C38: a host_sync_state_update that names a targetSocketId delivers
\* apply_host_sync_state only to a connection that is a key of the users map of
\* the sending host's room.
C38_TargetInHostsRoom ==
  [][ \A r \in DOMAIN rooms, target \in SocketIds, state \in SyncStates :
        HostSyncStateUpdate(rooms[r].hostSocketId, r, state, target)
        => Receivers("apply_host_sync_state", outbox') \subseteq MapKeys(rooms[r].users)
    ]_vars

\* ------------------------------------------------------------------ C39
\* A page whose user never picks a file: it creates no blob: reference, so
\* every blob: reference it holds was created on another client.
ViewerActs(c) ==
  \/ UrlEffect(c) /\ Alone
  \/ TimerFire(c) /\ Alone
  \/ HandleReady(c) /\ Alone
  \/ HandleError(c) /\ Alone
  \/ HandleProgress(c) /\ Alone
  \/ UserPlay(c) /\ Alone
  \/ UserPause(c) /\ Alone
  \/ \E seconds \in Times : UserSeek(c, seconds) /\ Alone
  \/ SyncWithHost(c) /\ Alone

NextViewer == PageHears(ThePage) \/ ViewerActs(ThePage)

SpecViewer == Init /\ [][NextViewer]_vars

\* C39: a client never gives its player a blob: reference that was created on
\* another client, also not after promoted_to_host has made a guest the host
\* while it holds the previous host's reference.
C39_NoForeignBlob ==
  \A c \in SocketIds :
    page[c].surface # <<>> => ~IsBlobUrl(page[c].surface[1].url)

\* ------------------------------------------------------------------ C40
\* Two pages with their chat panels, the server and the wires between them.

\* chat messages the users send in a run.
MaxTalk == 2

\* the message built by handleSendTextMessage and handleSendAudioMessage: its id
\* is the socket id followed by Date.now(), n for the n-th message of the user.
ChatMessage(c, n, type) == [id |-> <<c, n>>, userId |-> c, type |-> type]

\* send_message is emitted with a message of the given type. The panel is
\* rendered once the page has joined (page.tsx 415).
SendChat(c, type) ==
  /\ page[c].joined
  /\ chat[SocketOrder[1]].typed + chat[SocketOrder[2]].typed < MaxTalk
  /\ chat' = [chat EXCEPT ![c].typed = @ + 1]
  /\ emits' = Sent(c, <<ClientEmit("send_message",
                                    [messageData |-> ChatMessage(c, chat[c].typed + 1, type)])>>)
  /\ uplink' = [uplink EXCEPT ![c] = @ \o emits']
  /\ UNCHANGED <<serverVars, page, heard, inbox>>

\* handleSendTextMessage (ChatInterface.tsx 551-567): nothing is sent without
\* a socket and its id.
handleSendTextMessage(c) ==
  /\ connected[c] = "open"
  /\ SendChat(c, "text")

\* handleSendAudioMessage (632-674): the message is emitted in reader.onloadend.
handleSendAudioMessage(c) ==
  /\ connected[c] = "open"
  /\ SendChat(c, "audio")

\* send_message arrives at the server (server.js 182-187).
WireSendMessage(s) ==
  /\ Arrives(s, "send_message")
  /\ SendMessage(s, PageRoom, Head(uplink[s]).body.messageData)
  /\ inbox' = PostOf(outbox', inbox, {"new_message"})
  /\ emits' = <<>>
  /\ Taken(s)
  /\ UNCHANGED <<page, heard, chat>>

\* handleNewMessage (ChatInterface.tsx 524-541). A text message is appended in
\* the call; for an audio message the call is suspended in the fetch of the
\* data URI (529) and appends when it is resumed.
handleNewMessage(c, messageData) ==
  chat' = [chat EXCEPT
             ![c].arrived = Append(@, messageData),
             ![c].messages = IF messageData.type = "audio" THEN @
                             ELSE Append(@, messageData),
             ![c].converting = IF messageData.type = "audio" THEN @ \cup {messageData}
                               ELSE @]

\* new_message reaches client c: the panel's listener (543) is called when the
\* panel is rendered, and nothing listens otherwise.
WireNewMessage(c) ==
  /\ Reaches(c, "new_message")
  /\ IF page[c].joined
     THEN handleNewMessage(c, Head(inbox[c]).body.messageData)
     ELSE UNCHANGED chat
  /\ inbox' = [inbox EXCEPT ![c] = Tail(@)]
  /\ emits' = <<>>
  /\ UNCHANGED <<serverVars, page, heard, uplink>>

\* The fetch and blob promises of a suspended call settle, or fail and are
\* caught: either way the call goes on to setMessages (540).
AudioFetched(c) ==
  \E messageData \in chat[c].converting :
    /\ chat' = [chat EXCEPT ![c].converting = @ \ {messageData},
                            ![c].messages = Append(@, messageData)]
    /\ emits' = <<>>
    /\ UNCHANGED <<serverVars, page, heard, inbox, uplink>>

NextTalk ==
  \/ \E s \in TwoSockets : WireConnect(s)
  \/ \E s \in TwoSockets : WireJoinRoom(s)
  \/ \E p \in pending : WireJoinLoaded(p)
  \/ \E p \in pending : WireJoinSaved(p)
  \/ \E p \in pending : WireJoinCreatedSaved(p)
  \/ \E c \in TwoSockets : handlePasswordSubmit(c)
  \/ \E c \in TwoSockets : WireRoomJoined(c)
  \/ \E c \in TwoSockets : WireJoinError(c)
  \/ \E c \in TwoSockets : handleSendTextMessage(c)
  \/ \E c \in TwoSockets : handleSendAudioMessage(c)
  \/ \E s \in TwoSockets : WireSendMessage(s)
  \/ \E c \in TwoSockets : WireNewMessage(c)
  \/ \E c \in TwoSockets : AudioFetched(c)

SpecTalk == Init /\ [][NextTalk]_vars

\* C40: on every client the displayed message list is in the order in which
\* the server broadcast the new_message events: of two messages in the list,
\* the one broadcast first comes first, for text and audio messages alike.
C40_ListInBroadcastOrder ==
  \A c \in SocketIds :
    \A i, j \in 1..Len(chat[c].messages) :
      i < j => IndexIn(chat[c].arrived, chat[c].messages[i])
                 < IndexIn(chat[c].arrived, chat[c].messages[j])

\* text messages alone are listed in the order of their broadcast.
TextInBroadcastOrder ==
  \A c \in SocketIds :
    \A i, j \in 1..Len(chat[c].messages) :
      (i < j /\ chat[c].messages[i].type = "text" /\ chat[c].messages[j].type = "text")
        => IndexIn(chat[c].arrived, chat[c].messages[i])
             < IndexIn(chat[c].arrived, chat[c].messages[j])

====
